---------------------------- MODULE Spec2Model ----------------------------
(***************************************************************************)
(* A model of the data-shape inference core of explaindb: the path codec   *)
(* (escapeKey / unescapeKey / joinPath / splitPath), the flatten engine,   *)
(* the merger and the aggregator.                                          *)
(*                                                                         *)
(* Strings are sequences of one-character strings, so that escaping,       *)
(* splitting and suffix tests are computed character by character.         *)
(***************************************************************************)
EXTENDS Integers, Sequences, FiniteSets, TLC

VARIABLES
    cpc,      \* codec: position of the codec run ("key", "escaped", ... )
    cKey,     \* codec: the raw key handed to escapeKey
    cEsc,     \* codec: escapeKey(cKey)
    cBack,    \* codec: unescapeKey(cEsc)
    cSegs,    \* codec: the segments handed to joinPath
    cJoined,  \* codec: joinPath(...cSegs)
    cSplit    \* codec: splitPath(cJoined)

VARIABLES
    phase,    \* pipeline: "idle", "flatten", "flattened", "merged", "aggregated"
    docs,     \* pipeline: the sampled documents, flattened as docs[i+1] with index i
    limits,   \* pipeline: the FlattenLimits of the flatten calls
    fl,       \* flatten: the context of the running call (paths, counters,
              \*          keyCount, docIndex) and the stack of its open loops
    results,  \* pipeline: the FlattenResult of each finished flatten call
    merged,   \* pipeline: the result of mergeFlattenResults
    fields,   \* pipeline: the FieldSchema list aggregateAll returned
    aggOpts   \* pipeline: the options the aggregateAll call was given

VARIABLES
    fn,       \* call: the function of the library call under study, and its stage
    arg,      \* call: the arguments of the call
    ret,      \* call: what the call returned
    pool      \* runWithConcurrency: the items, the executing set and the results

VARIABLES
    explain,  \* runExplain: the position, the attempts made, the cache entry
    cli       \* run: the position of the command, the connection, the exit code

codecVars == <<cpc, cKey, cEsc, cBack, cSegs, cJoined, cSplit>>

pipeVars == <<phase, docs, limits, fl, results, merged, fields, aggOpts>>

callVars == <<fn, arg, ret, pool>>

runVars == <<explain, cli>>

vars == <<codecVars, pipeVars, callVars, runVars>>

-----------------------------------------------------------------------------
(* Characters *)

BS == "\\"
DOT == "."
DOLLAR == "$"
\* U+0000, the placeholder character unescapeKey uses
NUL == "NUL"

-----------------------------------------------------------------------------
(* Bounds *)

MaxKeyLen == 3
MaxSegLen == 2
MaxSegs == 3

-----------------------------------------------------------------------------
(* Generic string helpers *)

SeqsUpTo(S, n) == UNION {[1..k -> S] : k \in 0..n}

StartsWithAt(s, i, pat) ==
    /\ i + Len(pat) - 1 <= Len(s)
    /\ \A j \in 1..Len(pat) : s[i + j - 1] = pat[j]

EndsWith(s, suf) ==
    /\ Len(suf) <= Len(s)
    /\ \A j \in 1..Len(suf) : s[Len(s) - Len(suf) + j] = suf[j]

\* s.split(pat).join(rep): every occurrence of pat, found left to right
\* without overlap, is replaced by rep
RECURSIVE ReplaceFrom(_, _, _, _)
ReplaceFrom(s, i, pat, rep) ==
    IF i > Len(s) THEN <<>>
    ELSE IF StartsWithAt(s, i, pat)
         THEN rep \o ReplaceFrom(s, i + Len(pat), pat, rep)
         ELSE <<s[i]>> \o ReplaceFrom(s, i + 1, pat, rep)

SplitJoin(s, pat, rep) == ReplaceFrom(s, 1, pat, rep)

-----------------------------------------------------------------------------
(* The path codec *)

escapeKey(key) ==
    LET r1 == SplitJoin(key, <<BS>>, <<BS, BS>>)
        r2 == SplitJoin(r1, <<DOT>>, <<BS, DOT>>)
    IN  SplitJoin(r2, <<DOLLAR>>, <<BS, DOLLAR>>)

unescapeKey(key) ==
    LET r1 == SplitJoin(key, <<BS, BS>>, <<NUL>>)
        r2 == SplitJoin(r1, <<BS, DOLLAR>>, <<DOLLAR>>)
        r3 == SplitJoin(r2, <<BS, DOT>>, <<DOT>>)
    IN  SplitJoin(r3, <<NUL>>, <<BS>>)

\* segments.filter(Boolean): the empty string is falsy
FilterNonEmpty(segments) == SelectSeq(segments, LAMBDA s : s # <<>>)

RECURSIVE JoinWith(_, _)
JoinWith(segments, sep) ==
    IF segments = <<>> THEN <<>>
    ELSE IF Len(segments) = 1 THEN segments[1]
    ELSE segments[1] \o sep \o JoinWith(Tail(segments), sep)

joinPath(segments) == JoinWith(FilterNonEmpty(segments), <<DOT>>)

\* the while loop of splitPath, at index i with the segments pushed so far
\* and the segment being built
RECURSIVE SplitLoop(_, _, _, _)
SplitLoop(path, i, segments, current) ==
    IF i > Len(path)
    THEN IF current # <<>> THEN Append(segments, current) ELSE segments
    ELSE IF path[i] = BS /\ i + 1 <= Len(path)
         THEN SplitLoop(path, i + 2, segments, current \o <<path[i], path[i + 1]>>)
         ELSE IF path[i] = DOT
              THEN IF current # <<>>
                   THEN SplitLoop(path, i + 1, Append(segments, current), <<>>)
                   ELSE SplitLoop(path, i + 1, segments, current)
              ELSE SplitLoop(path, i + 1, segments, Append(current, path[i]))

\* splitPath without the escape branch: every dot separates
RECURSIVE SplitLoopNoEscape(_, _, _, _)
SplitLoopNoEscape(path, i, segments, current) ==
    IF i > Len(path)
    THEN IF current # <<>> THEN Append(segments, current) ELSE segments
    ELSE IF path[i] = DOT
         THEN IF current # <<>>
              THEN SplitLoopNoEscape(path, i + 1, Append(segments, current), <<>>)
              ELSE SplitLoopNoEscape(path, i + 1, segments, current)
         ELSE SplitLoopNoEscape(path, i + 1, segments, Append(current, path[i]))

splitPathNoEscape(path) == SplitLoopNoEscape(path, 1, <<>>, <<>>)

splitPath(path) == SplitLoop(path, 1, <<>>, <<>>)

-----------------------------------------------------------------------------
(* Array-index segments *)

Digit10 == <<"0", "1", "2", "3", "4", "5", "6", "7", "8", "9">>
Digits == {Digit10[i] : i \in 1..10}

\* the decimal digits of a natural number
RECURSIVE NatToChars(_)
NatToChars(n) ==
    IF n < 10 THEN <<Digit10[n + 1]>>
    ELSE NatToChars(n \div 10) \o <<Digit10[(n % 10) + 1]>>

\* Number.prototype.toString of an integer
IntToChars(n) == IF n < 0 THEN <<"-">> \o NatToChars(-n) ELSE NatToChars(n)

formatArrayIndex(index) == <<"[">> \o IntToChars(index) \o <<"]">>

\* /^\[\d+\]$/
isArrayIndex(segment) ==
    /\ Len(segment) >= 3
    /\ segment[1] = "["
    /\ segment[Len(segment)] = "]"
    /\ \A j \in 2..(Len(segment) - 1) : segment[j] \in Digits

WILDCARD == <<"[", "*", "]">>

\* the segment kept as it is
keepArrayIndex(segment) == segment

normalizeArrayIndex(segment) == IF isArrayIndex(segment) THEN WILDCARD ELSE segment

-----------------------------------------------------------------------------
(* Values.  A value is a record: k its kind, n the number of a "num" (or   *)
(* 0/1 of a "bool"), s the characters of a "str", c the entries of an      *)
(* "arr" (keys empty) or an "obj" (key and value, in key order), tag the   *)
(* _bsontype of a "bson" wrapper.  A "date" carries in s its               *)
(* toISOString(), a "bson" wrapper in s its toString().                    *)

Val(k, n, s, c, tag) == [k |-> k, n |-> n, s |-> s, c |-> c, tag |-> tag]

NullV == Val("null", 0, <<>>, <<>>, <<>>)
UndefinedV == Val("undefined", 0, <<>>, <<>>, <<>>)
BoolV(b) == Val("bool", IF b THEN 1 ELSE 0, <<>>, <<>>, <<>>)
NumV(n) == Val("num", n, <<>>, <<>>, <<>>)
StrV(s) == Val("str", 0, s, <<>>, <<>>)
DateV(iso) == Val("date", 0, iso, <<>>, <<>>)
BsonV(tag, s) == Val("bson", 0, s, <<>>, tag)
Entry(key, val) == [key |-> key, val |-> val]
ArrV(elems) == Val("arr", 0, <<>>, [i \in 1..Len(elems) |-> Entry(<<>>, elems[i])], <<>>)
ObjV(entries) == Val("obj", 0, <<>>, entries, <<>>)

INT32_MIN == (-2147483647) - 1
INT32_MAX == 2147483647

\* A number beyond the integers of the checker is held in two limbs, as
\* hi * LIMB + lo with lo in 0..(LIMB - 1); a non-integral number holds the
\* digits of its fraction.
LIMB == 256 * 256
WideV(hi, lo) == Val("num", 0, <<>>, <<hi, lo>>, <<>>)
FracV(n, fraction) == Val("num", n, fraction, <<>>, <<>>)
BigIntV(n) == Val("bigint", n, <<>>, <<>>, <<>>)

Limbs(value) == IF value.c = <<>> THEN <<value.n \div LIMB, value.n % LIMB>> ELSE value.c

\* a <= b on limbs
LimbsLeq(a, b) == a[1] < b[1] \/ (a[1] = b[1] /\ a[2] <= b[2])

\* a < b on limbs
LimbsLess(a, b) == a[1] < b[1] \/ (a[1] = b[1] /\ a[2] < b[2])

\* Number.isInteger(value)
isInteger(value) == value.s = <<>>

\* the range test with both bounds excluded
InInt32Exclusive(value) ==
    /\ LimbsLess(Limbs(NumV(INT32_MIN)), Limbs(value))
    /\ LimbsLess(Limbs(value), Limbs(NumV(INT32_MAX)))

\* value >= -2147483648 && value <= 2147483647
InInt32(value) ==
    /\ LimbsLeq(Limbs(NumV(INT32_MIN)), Limbs(value))
    /\ LimbsLeq(Limbs(value), Limbs(NumV(INT32_MAX)))

detectBsonType(value) ==
    IF value.k = "null" THEN "null"
    ELSE IF value.k = "undefined" THEN "undefined"
    ELSE IF value.k = "bool" THEN "boolean"
    ELSE IF value.k = "str" THEN "string"
    ELSE IF value.k = "num"
         THEN IF isInteger(value)
              THEN IF InInt32(value) THEN "int" ELSE "long"
              ELSE "double"
    ELSE IF value.k = "bigint" THEN "long"
    ELSE IF value.k = "arr" THEN "array"
    ELSE IF value.k = "date" THEN "date"
    ELSE IF value.k = "bson" /\ value.tag \in {<<"O", "b", "j", "e", "c", "t", "I", "d">>, <<"O", "b", "j", "e", "c", "t", "I", "D">>} THEN "objectId"
    ELSE IF value.k = "bson" /\ value.tag = <<"D", "e", "c", "i", "m", "a", "l", "1", "2", "8">> THEN "decimal"
    ELSE IF value.k = "bson" /\ value.tag = <<"T", "i", "m", "e", "s", "t", "a", "m", "p">> THEN "timestamp"
    ELSE IF value.k = "bson" /\ value.tag = <<"L", "o", "n", "g">> THEN "long"
    ELSE IF value.k = "bson" /\ value.tag = <<"B", "i", "n", "a", "r", "y">> THEN "binData"
    ELSE IF value.k = "bson" /\ value.tag = <<"M", "i", "n", "K", "e", "y">> THEN "minKey"
    ELSE IF value.k = "bson" /\ value.tag = <<"M", "a", "x", "K", "e", "y">> THEN "maxKey"
    ELSE "object"

\* the characters of a BsonType, as `[${elemType}]` interpolates it
TypeChars(type) ==
    CASE type = "null" -> <<"n", "u", "l", "l">>
      [] type = "undefined" -> <<"u", "n", "d", "e", "f", "i", "n", "e", "d">>
      [] type = "boolean" -> <<"b", "o", "o", "l", "e", "a", "n">>
      [] type = "string" -> <<"s", "t", "r", "i", "n", "g">>
      [] type = "int" -> <<"i", "n", "t">>
      [] type = "long" -> <<"l", "o", "n", "g">>
      [] type = "double" -> <<"d", "o", "u", "b", "l", "e">>
      [] type = "array" -> <<"a", "r", "r", "a", "y">>
      [] type = "date" -> <<"d", "a", "t", "e">>
      [] type = "object" -> <<"o", "b", "j", "e", "c", "t">>
      [] type = "objectId" -> <<"o", "b", "j", "e", "c", "t", "I", "d">>
      [] type = "decimal" -> <<"d", "e", "c", "i", "m", "a", "l">>
      [] type = "timestamp" -> <<"t", "i", "m", "e", "s", "t", "a", "m", "p">>
      [] type = "binData" -> <<"b", "i", "n", "D", "a", "t", "a">>
      [] type = "minKey" -> <<"m", "i", "n", "K", "e", "y">>
      [] type = "maxKey" -> <<"m", "a", "x", "K", "e", "y">>

-----------------------------------------------------------------------------
(* Map<string, PathValue[]>: the entries in insertion order *)

MapHas(m, path) == \E i \in 1..Len(m) : m[i].path = path

MapGet(m, path) ==
    IF MapHas(m, path)
    THEN m[CHOOSE i \in 1..Len(m) : m[i].path = path].values
    ELSE <<>>

\* m.set(path, values): an existing key keeps its place
MapSet(m, path, values) ==
    IF MapHas(m, path)
    THEN [i \in 1..Len(m) |-> IF m[i].path = path
                              THEN [path |-> path, values |-> values]
                              ELSE m[i]]
    ELSE Append(m, [path |-> path, values |-> values])

MapPaths(m) == {m[i].path : i \in 1..Len(m)}

-----------------------------------------------------------------------------
(* flatten *)

DEFAULT_MAX_DEPTH == 20
DEFAULT_MAX_KEYS_PER_DOC == 2000
DEFAULT_MAX_ARRAY_SAMPLE == 50

DEFAULT_LIMITS ==
    [maxDepth |-> DEFAULT_MAX_DEPTH,
     maxKeysPerDoc |-> DEFAULT_MAX_KEYS_PER_DOC,
     maxArraySample |-> DEFAULT_MAX_ARRAY_SAMPLE]

\* {...DEFAULT_LIMITS, ...overrides}: no value is tested
createLimits(overrides) ==
    [name \in DOMAIN DEFAULT_LIMITS |->
        IF name \in DOMAIN overrides THEN overrides[name] ELSE DEFAULT_LIMITS[name]]

\* TRUE when validateLimits returns, FALSE when it throws; no caller exists
validateLimits(lim) ==
    /\ ~(lim.maxDepth < 1 \/ lim.maxDepth > 100)
    /\ ~(lim.maxKeysPerDoc < 1 \/ lim.maxKeysPerDoc > 10000)
    /\ ~(lim.maxArraySample < 1 \/ lim.maxArraySample > 1000)

\* z.number().int().positive() on each of the three limits of the CLI options
CLIOptionsSchema(opts) ==
    opts.maxDepth > 0 /\ opts.maxKeysPerDoc > 0 /\ opts.maxArraySample > 0

TRUNCATED_SUFFIX == <<".", "[", "T", "R", "U", "N", "C", "A", "T", "E", "D", "]">>

Min(a, b) == IF a < b THEN a ELSE b

ZeroCounters == [depthTruncated |-> 0, keysTruncated |-> 0, arraysTruncated |-> 0]

\* the fresh state of one flatten call: paths, counters, keyCount, and the
\* loops that are open (the innermost first)
NewContext(docIndex) ==
    [paths |-> <<>>, counters |-> ZeroCounters, keyCount |-> 0,
     docIndex |-> docIndex, stack |-> <<>>]

Frame(op, val, path, depth, i, types) ==
    [op |-> op, val |-> val, path |-> path, depth |-> depth, i |-> i, types |-> types]

PathValue(value, type, docIndex) == [value |-> value, type |-> type, docIndex |-> docIndex]

\* addPath without the key budget
addPathUnbounded(c, lim, path, value, type) ==
    [c EXCEPT
        !.paths = MapSet(@, path,
                         Append(MapGet(@, path), PathValue(value, type, c.docIndex))),
        !.keyCount = @ + 1]

addPath(c, lim, path, value, type) ==
    IF c.keyCount >= lim.maxKeysPerDoc
    THEN [c EXCEPT !.counters.keysTruncated = @ + 1]
    ELSE [c EXCEPT
            !.paths = MapSet(@, path,
                             Append(MapGet(@, path), PathValue(value, type, c.docIndex))),
            !.keyCount = @ + 1]

PushFrame(c, f) == [c EXCEPT !.stack = <<f>> \o @]

\* the truncation without its count
truncateUncounted(c, lim, currentPath) ==
    addPath(c, lim, currentPath \o TRUNCATED_SUFFIX, NullV, "null")

\* traverse at a depth beyond maxDepth
truncate(c, lim, currentPath) ==
    addPath([c EXCEPT !.counters.depthTruncated = @ + 1], lim,
            currentPath \o TRUNCATED_SUFFIX, NullV, "null")

\* every element sampled
sampleSizeWhole(obj, lim) == Len(obj.c)

sampleSize(obj, lim) == Min(Len(obj.c), lim.maxArraySample)

\* a long array that is not counted
countNoArray(c, obj, lim) == c

\* the count of an array longer than the sample
countLongArray(c, obj, lim) ==
    IF Len(obj.c) > lim.maxArraySample
    THEN [c EXCEPT !.counters.arraysTruncated = @ + 1]
    ELSE c

\* the body of traverse up to its loops: the loop over the elements of an
\* array or over the keys of an object is left open on the stack
traverse(c, lim, obj, currentPath, depth) ==
    IF depth > lim.maxDepth
    THEN truncate(c, lim, currentPath)
    ELSE IF c.keyCount >= lim.maxKeysPerDoc
    THEN [c EXCEPT !.counters.keysTruncated = @ + 1]
    ELSE LET type == detectBsonType(obj) IN
         IF obj.k \in {"null", "undefined"} THEN addPath(c, lim, currentPath, obj, type)
         ELSE IF obj.k \in {"bool", "num", "str"} THEN addPath(c, lim, currentPath, obj, type)
         ELSE IF obj.k = "date" THEN addPath(c, lim, currentPath, obj, type)
         ELSE IF obj.k = "arr"
         THEN LET c1 == addPath(c, lim, currentPath, obj, type)
                  c2 == countLongArray(c1, obj, lim)
              IN  \* no element sampled: the loop does not run and
                  \* elementTypes stays empty
                  IF sampleSize(obj, lim) > 0
                  THEN PushFrame(c2, Frame("elems", obj, currentPath, depth, 0, <<>>))
                  ELSE c2
         ELSE IF obj.k = "bson" THEN addPath(c, lim, currentPath, obj, type)
         ELSE LET c1 == addPath(c, lim, currentPath, obj, type)
              IN  IF Len(obj.c) > 0
                  THEN PushFrame(c1, Frame("keys", obj, currentPath, depth, 0, <<>>))
                  ELSE c1

TopFrame(c) == c.stack[1]

\* the frame that continues a loop after iteration i of n, if any is left
\* a loop that stays on its element
ContinueForever(rest, f, n) == <<f>> \o rest

Continue(rest, f, n) ==
    IF f.i + 1 < n THEN <<[f EXCEPT !.i = @ + 1]>> \o rest ELSE rest

\* one iteration of the loop over the document's own keys
rootIteration(c, lim) ==
    LET f == TopFrame(c)
        e == f.val.c[f.i + 1]
        escapedKey == escapeKey(e.key)
        c0 == [c EXCEPT !.stack = Continue(Tail(@), f, Len(f.val.c))]
    IN  traverse(c0, lim, e.val, escapedKey, 1)

\* one iteration of the loop over the keys of an object
keyIteration(c, lim) ==
    LET f == TopFrame(c)
        e == f.val.c[f.i + 1]
        escapedKey == escapeKey(e.key)
        newPath == IF f.path # <<>> THEN joinPath(<<f.path, escapedKey>>) ELSE escapedKey
        c0 == [c EXCEPT !.stack = Continue(Tail(@), f, Len(f.val.c))]
    IN  traverse(c0, lim, e.val, newPath, f.depth + 1)

SetAdd(types, t) ==
    IF \E j \in 1..Len(types) : types[j] = t THEN types ELSE Append(types, t)

\* one iteration of the loop over the sampled elements of an array; after
\* the last one the loop over elementTypes is left open
elementIteration(c, lim) ==
    LET f == TopFrame(c)
        element == f.val.c[f.i + 1].val
        elementType == detectBsonType(element)
        elementTypes == SetAdd(f.types, elementType)
        elementPath == joinPath(<<f.path, formatArrayIndex(f.i)>>)
        next == IF f.i + 1 < sampleSize(f.val, lim)
                THEN [f EXCEPT !.i = @ + 1, !.types = elementTypes]
                ELSE Frame("types", f.val, joinPath(<<f.path, WILDCARD>>),
                           f.depth, 0, elementTypes)
        c0 == [c EXCEPT !.stack = <<next>> \o Tail(@)]
    IN  IF elementType = "object" /\ element.k # "null"
        THEN traverse(c0, lim, element, elementPath, f.depth + 1)
        ELSE IF elementType = "array"
        THEN traverse(c0, lim, element, elementPath, f.depth + 1)
        ELSE addPath(c0, lim, elementPath, element, elementType)

\* one iteration of the loop over elementTypes: a PathValue at path.[*]
typeIteration(c, lim) ==
    LET f == TopFrame(c)
        elemType == f.types[f.i + 1]
        c0 == [c EXCEPT !.stack = Continue(Tail(@), f, Len(f.types))]
    IN  addPath(c0, lim, f.path,
                StrV(<<"[">> \o TypeChars(elemType) \o <<"]">>), elemType)

\* the next step of a flatten call whose loops are not all finished
flattenStep(c, lim) ==
    CASE TopFrame(c).op = "root" -> rootIteration(c, lim)
      [] TopFrame(c).op = "keys" -> keyIteration(c, lim)
      [] TopFrame(c).op = "elems" -> elementIteration(c, lim)
      [] TopFrame(c).op = "types" -> typeIteration(c, lim)

\* the state of flatten(doc, docIndex, options) when it enters its root loop
flattenStart(doc, docIndex) ==
    LET c == NewContext(docIndex)
    IN  IF Len(doc.c) > 0
        THEN PushFrame(c, Frame("root", doc, <<>>, 0, 0, <<>>))
        ELSE c

\* a flatten call run to its end
RECURSIVE flattenRun(_, _)
flattenRun(c, lim) ==
    IF c.stack = <<>> THEN c ELSE flattenRun(flattenStep(c, lim), lim)

FlattenResult(c) == [paths |-> c.paths, truncationCounters |-> c.counters]

flatten(doc, docIndex, lim) == FlattenResult(flattenRun(flattenStart(doc, docIndex), lim))

-----------------------------------------------------------------------------
(* mergeFlattenResults *)

\* the loop over the entries of one result's paths, from entry i
RECURSIVE mergePaths(_, _, _)
mergePaths(mergedMap, paths, i) ==
    IF i > Len(paths) THEN mergedMap
    ELSE mergePaths(MapSet(mergedMap, paths[i].path,
                           MapGet(mergedMap, paths[i].path) \o paths[i].values),
                    paths, i + 1)

\* the loop over the results, from result r
RECURSIVE mergeResults(_, _, _)
mergeResults(acc, rs, r) ==
    IF r > Len(rs) THEN acc
    ELSE mergeResults(
            [paths |-> mergePaths(acc.paths, rs[r].paths, 1),
             truncationCounters |->
                [depthTruncated |-> acc.truncationCounters.depthTruncated
                                    + rs[r].truncationCounters.depthTruncated,
                 keysTruncated |-> acc.truncationCounters.keysTruncated
                                   + rs[r].truncationCounters.keysTruncated,
                 arraysTruncated |-> acc.truncationCounters.arraysTruncated
                                     + rs[r].truncationCounters.arraysTruncated]],
            rs, r + 1)

normalizePath(path) ==
    LET segments == splitPath(path)
        normalizedSegments == [j \in 1..Len(segments) |-> normalizeArrayIndex(segments[j])]
    IN  joinPath(normalizedSegments)

\* the loop of normalizePathsToWildcard, from entry i
RECURSIVE normalizeLoop(_, _, _)
normalizeLoop(normalized, paths, i) ==
    IF i > Len(paths) THEN normalized
    ELSE LET normalizedPath == normalizePath(paths[i].path)
         IN  normalizeLoop(MapSet(normalized, normalizedPath,
                                  MapGet(normalized, normalizedPath) \o paths[i].values),
                           paths, i + 1)

normalizePathsToWildcard(paths) == normalizeLoop(<<>>, paths, 1)

EmptyResult == [paths |-> <<>>, truncationCounters |-> ZeroCounters]

mergeFlattenResults(rs) ==
    LET m == mergeResults(EmptyResult, rs, 1)
    IN  [paths |-> normalizePathsToWildcard(m.paths),
         truncationCounters |-> m.truncationCounters]

-----------------------------------------------------------------------------
(* Regular expressions, as far as the detector's patterns use them.  A     *)
(* pattern is matched from a set of start positions and yields the set of  *)
(* positions at which a match can end.                                     *)

LowerSeq == <<"a", "b", "c", "d", "e", "f", "g", "h", "i", "j", "k", "l", "m",
              "n", "o", "p", "q", "r", "s", "t", "u", "v", "w", "x", "y", "z">>
UpperSeq == <<"A", "B", "C", "D", "E", "F", "G", "H", "I", "J", "K", "L", "M",
              "N", "O", "P", "Q", "R", "S", "T", "U", "V", "W", "X", "Y", "Z">>
Lower == {LowerSeq[i] : i \in 1..26}
Upper == {UpperSeq[i] : i \in 1..26}
Alnum == Lower \cup Upper \cup Digits
HexLower == Digits \cup {"a", "b", "c", "d", "e", "f"}
HexAny == HexLower \cup {"A", "B", "C", "D", "E", "F"}
Whitespace == {" ", "\t", "\n", "\r", "\f"}

ToLowerChar(ch) ==
    IF ch \in Upper THEN LowerSeq[CHOOSE i \in 1..26 : UpperSeq[i] = ch] ELSE ch

toLowerCase(s) == [j \in 1..Len(s) |-> ToLowerChar(s[j])]

Ch(cs) == [t |-> "set", cs |-> cs, rs |-> <<>>, lo |-> 0, hi |-> 0]
Cat(rs) == [t |-> "cat", cs |-> {}, rs |-> rs, lo |-> 0, hi |-> 0]
Alt(rs) == [t |-> "alt", cs |-> {}, rs |-> rs, lo |-> 0, hi |-> 0]
\* hi = -1: no upper bound
Rep(r, lo, hi) == [t |-> "rep", cs |-> {}, rs |-> <<r>>, lo |-> lo, hi |-> hi]
Opt(r) == Rep(r, 0, 1)
Plus(r) == Rep(r, 1, -1)
Lit(str) == Cat([j \in 1..Len(str) |-> Ch({str[j]})])

RECURSIVE MatchEnds(_, _, _)
RECURSIVE CatEnds(_, _, _, _)
RECURSIVE RepEnds(_, _, _, _)

MatchEnds(r, s, P) ==
    CASE r.t = "set" -> {p + 1 : p \in {q \in P : q <= Len(s) /\ s[q] \in r.cs}}
      [] r.t = "cat" -> CatEnds(r.rs, 1, s, P)
      [] r.t = "alt" -> UNION {MatchEnds(r.rs[k], s, P) : k \in 1..Len(r.rs)}
      [] r.t = "rep" -> RepEnds(r, s, P, 0)

CatEnds(rs, k, s, P) ==
    IF k > Len(rs) \/ P = {} THEN P ELSE CatEnds(rs, k + 1, s, MatchEnds(rs[k], s, P))

RepEnds(r, s, P, n) ==
    LET here == IF n >= r.lo THEN P ELSE {}
    IN  IF P = {} \/ (r.hi # -1 /\ n >= r.hi) THEN here
        ELSE here \cup RepEnds(r, s, MatchEnds(r.rs[1], s, P), n + 1)

\* a pattern of the detector: anchored is ^...$, icase the i flag (the
\* expression is then written in lower case)
Pattern(re, anchored, icase, hint) ==
    [re |-> re, anchored |-> anchored, icase |-> icase, hint |-> hint]

\* RegExp.prototype.test
Test(p, s) ==
    LET subject == IF p.icase THEN toLowerCase(s) ELSE s
    IN  IF p.anchored
        THEN (Len(s) + 1) \in MatchEnds(p.re, subject, {1})
        ELSE MatchEnds(p.re, subject, 1..(Len(s) + 1)) # {}

-----------------------------------------------------------------------------
(* detectPII *)

SepOpt == Opt(Ch({"-", "_"}))

PII_FIELD_PATTERNS ==
    << Pattern(Lit(<<"e", "m", "a", "i", "l">>), FALSE, TRUE, <<"e", "m", "a", "i", "l">>),
       Pattern(Cat(<<Lit(<<"e">>), SepOpt, Lit(<<"m", "a", "i", "l">>)>>), FALSE, TRUE, <<"e", "m", "a", "i", "l">>),
       Pattern(Lit(<<"p", "h", "o", "n", "e">>), FALSE, TRUE, <<"p", "h", "o", "n", "e">>),
       Pattern(Lit(<<"m", "o", "b", "i", "l", "e">>), FALSE, TRUE, <<"p", "h", "o", "n", "e">>),
       Pattern(Cat(<<Lit(<<"t", "e", "l">>), Opt(Lit(<<"e", "p", "h", "o", "n", "e">>))>>), FALSE, TRUE, <<"p", "h", "o", "n", "e">>),
       Pattern(Lit(<<"p", "a", "s", "s", "w", "o", "r", "d">>), FALSE, TRUE, <<"p", "a", "s", "s", "w", "o", "r", "d">>),
       Pattern(Lit(<<"p", "a", "s", "s", "w", "d">>), FALSE, TRUE, <<"p", "a", "s", "s", "w", "o", "r", "d">>),
       Pattern(Lit(<<"p", "w", "d">>), FALSE, TRUE, <<"p", "a", "s", "s", "w", "o", "r", "d">>),
       Pattern(Lit(<<"s", "e", "c", "r", "e", "t">>), FALSE, TRUE, <<"s", "e", "c", "r", "e", "t">>),
       Pattern(Lit(<<"t", "o", "k", "e", "n">>), FALSE, TRUE, <<"t", "o", "k", "e", "n">>),
       Pattern(Cat(<<Lit(<<"a", "p", "i">>), SepOpt, Lit(<<"k", "e", "y">>)>>), FALSE, TRUE, <<"a", "p", "i", "_", "k", "e", "y">>),
       Pattern(Cat(<<Lit(<<"a", "c", "c", "e", "s", "s">>), SepOpt, Lit(<<"k", "e", "y">>)>>), FALSE, TRUE, <<"a", "c", "c", "e", "s", "s", "_", "k", "e", "y">>),
       Pattern(Lit(<<"a", "u", "t", "h">>), FALSE, TRUE, <<"a", "u", "t", "h">>),
       Pattern(Lit(<<"s", "s", "n">>), FALSE, TRUE, <<"s", "s", "n">>),
       Pattern(Lit(<<"s", "e", "r", "i", "a", "l">>), FALSE, TRUE, <<"s", "s", "n">>),
       Pattern(Cat(<<Lit(<<"s", "o", "c", "i", "a", "l">>), SepOpt, Lit(<<"s", "e", "c", "u", "r", "i", "t", "y">>)>>), FALSE, TRUE, <<"s", "s", "n">>),
       Pattern(Cat(<<Lit(<<"c", "r", "e", "d", "i", "t">>), SepOpt, Lit(<<"c", "a", "r", "d">>)>>), FALSE, TRUE, <<"c", "r", "e", "d", "i", "t", "_", "c", "a", "r", "d">>),
       Pattern(Cat(<<Lit(<<"c", "a", "r", "d">>), SepOpt, Lit(<<"n", "u", "m", "b", "e", "r">>)>>), FALSE, TRUE, <<"c", "r", "e", "d", "i", "t", "_", "c", "a", "r", "d">>),
       Pattern(Lit(<<"c", "v", "v">>), FALSE, TRUE, <<"c", "v", "v">>),
       Pattern(Lit(<<"c", "v", "c">>), FALSE, TRUE, <<"c", "v", "v">>),
       Pattern(Lit(<<"a", "d", "d", "r", "e", "s", "s">>), FALSE, TRUE, <<"a", "d", "d", "r", "e", "s", "s">>),
       Pattern(Cat(<<Lit(<<"b", "i", "r", "t", "h">>), SepOpt, Lit(<<"d", "a", "t", "e">>)>>), FALSE, TRUE, <<"b", "i", "r", "t", "h", "d", "a", "t", "e">>),
       Pattern(Lit(<<"d", "o", "b">>), FALSE, TRUE, <<"b", "i", "r", "t", "h", "d", "a", "t", "e">>),
       Pattern(Cat(<<Lit(<<"i", "p">>), SepOpt, Lit(<<"a", "d", "d", "r", "e", "s", "s">>)>>), FALSE, TRUE, <<"i", "p", "_", "a", "d", "d", "r", "e", "s", "s">>),
       Pattern(Lit(<<"c", "i">>), TRUE, TRUE, <<"c", "i">>),
       Pattern(Lit(<<"d", "i">>), TRUE, TRUE, <<"d", "i">>),
       Pattern(Lit(<<"s", "a", "l", "t">>), FALSE, TRUE, <<"s", "a", "l", "t">>),
       Pattern(Lit(<<"n", "a", "m", "e">>), FALSE, TRUE, <<"n", "a", "m", "e">>) >>

PII_PARENT_PATTERNS ==
    << Pattern(Lit(<<"a", "d", "d", "r", "e", "s", "s">>), TRUE, TRUE, <<"a", "d", "d", "r", "e", "s", "s">>),
       Pattern(Lit(<<"l", "o", "c", "a", "t", "i", "o", "n">>), TRUE, TRUE, <<"l", "o", "c", "a", "t", "i", "o", "n">>) >>

Digit == Ch(Digits)
PhoneSep == Opt(Ch({"-", "."} \cup Whitespace))
CardSep == Opt(Ch({"-"} \cup Whitespace))
JwtPart == Plus(Ch(Alnum \cup {"_", "-"}))
\* 25[0-5]|2[0-4]\d|[01]?\d\d?
Octet ==
    Alt(<<Cat(<<Lit(<<"2", "5">>), Ch({"0", "1", "2", "3", "4", "5"})>>),
          Cat(<<Lit(<<"2">>), Ch({"0", "1", "2", "3", "4"}), Digit>>),
          Cat(<<Opt(Ch({"0", "1"})), Digit, Opt(Digit)>>)>>)

PII_VALUE_PATTERNS ==
    << Pattern(Cat(<<Plus(Ch(Alnum \cup {".", "_", "%", "+", "-"})), Lit(<<"@">>),
                     Plus(Ch(Alnum \cup {".", "-"})), Lit(<<".">>),
                     Rep(Ch(Lower \cup Upper), 2, -1)>>),
               TRUE, FALSE, <<"e", "m", "a", "i", "l">>),
       Pattern(Cat(<<Opt(Lit(<<"+">>)), Rep(Digit, 1, 4), PhoneSep,
                     Opt(Lit(<<"(">>)), Rep(Digit, 1, 3), Opt(Lit(<<")">>)), PhoneSep,
                     Rep(Digit, 1, 4), PhoneSep, Rep(Digit, 1, 9)>>),
               TRUE, FALSE, <<"p", "h", "o", "n", "e">>),
       Pattern(Cat(<<Rep(Digit, 3, 3), Opt(Lit(<<"-">>)), Rep(Digit, 2, 2),
                     Opt(Lit(<<"-">>)), Rep(Digit, 4, 4)>>),
               TRUE, FALSE, <<"s", "s", "n">>),
       Pattern(Cat(<<Rep(Digit, 4, 4), CardSep, Rep(Digit, 4, 4), CardSep,
                     Rep(Digit, 4, 4), CardSep, Rep(Digit, 4, 4)>>),
               TRUE, FALSE, <<"c", "r", "e", "d", "i", "t", "_", "c", "a", "r", "d">>),
       Pattern(Cat(<<Lit(<<"e", "y", "J">>), JwtPart, Lit(<<".", "e", "y", "J">>), JwtPart, Lit(<<".">>), JwtPart>>),
               TRUE, FALSE, <<"j", "w", "t">>),
       Pattern(Cat(<<Rep(Ch(HexLower), 8, 8), Lit(<<"-">>), Rep(Ch(HexLower), 4, 4),
                     Lit(<<"-">>), Rep(Ch(HexLower), 4, 4), Lit(<<"-">>),
                     Rep(Ch(HexLower), 4, 4), Lit(<<"-">>), Rep(Ch(HexLower), 12, 12)>>),
               TRUE, TRUE, <<"u", "u", "i", "d">>),
       Pattern(Cat(<<Rep(Cat(<<Octet, Lit(<<".">>)>>), 3, 3), Octet>>),
               TRUE, FALSE, <<"i", "p", "_", "a", "d", "d", "r", "e", "s", "s">>),
       Pattern(Cat(<<Rep(Cat(<<Rep(Ch(HexAny), 1, 4), Lit(<<":">>)>>), 7, 7),
                     Rep(Ch(HexAny), 1, 4)>>),
               TRUE, FALSE, <<"i", "p", "_", "a", "d", "d", "r", "e", "s", "s">>) >>

\* String.prototype.split on one character: every occurrence separates,
\* empty pieces are kept
RECURSIVE SplitOnFrom(_, _, _, _, _)
SplitOnFrom(s, sep, i, pieces, current) ==
    IF i > Len(s) THEN Append(pieces, current)
    ELSE IF s[i] = sep
         THEN SplitOnFrom(s, sep, i + 1, Append(pieces, current), <<>>)
         ELSE SplitOnFrom(s, sep, i + 1, pieces, Append(current, s[i]))

SplitOn(s, sep) == SplitOnFrom(s, sep, 1, <<>>, <<>>)

Last(seq) == seq[Len(seq)]

\* x.split('.').pop() || x
LastPieceOr(x) == IF Last(SplitOn(x, DOT)) # <<>> THEN Last(SplitOn(x, DOT)) ELSE x

DropSuffix(s, suf) == IF EndsWith(s, suf) THEN SubSeq(s, 1, Len(s) - Len(suf)) ELSE s

\* the index of the first element of 1..n that satisfies P(_), or 0
FirstIndex(n, P(_)) ==
    IF \E i \in 1..n : P(i)
    THEN CHOOSE i \in 1..n : P(i) /\ \A j \in 1..(i - 1) : ~P(j)
    ELSE 0

\* a matcher that does not exclude the final segment
matchCustomPatternAnySegment(path, pattern) ==
    IF EndsWith(pattern, <<".", "*">>)
    THEN \E i \in 1..Len(SplitOn(path, DOT)) :
            toLowerCase(DropSuffix(SplitOn(path, DOT)[i], WILDCARD))
                = toLowerCase(SubSeq(pattern, 1, Len(pattern) - 2))
    ELSE toLowerCase(path) = toLowerCase(pattern)

matchCustomPattern(path, pattern) ==
    IF EndsWith(pattern, <<".", "*">>)
    THEN LET prefix == SubSeq(pattern, 1, Len(pattern) - 2)
             segments == SplitOn(path, DOT)
             Hit(i) == toLowerCase(DropSuffix(segments[i], WILDCARD)) = toLowerCase(prefix)
             first == FirstIndex(Len(segments), Hit)
         IN  first # 0 /\ first < Len(segments)
    ELSE toLowerCase(path) = toLowerCase(pattern)

RECURSIVE AddHints(_, _, _)
AddHints(hints, matching, i) ==
    IF i > Len(matching) THEN hints
    ELSE AddHints(SetAdd(hints, matching[i].hint), matching, i + 1)

\* the hints of the patterns of a table that match s, added to hints in
\* table order (from pattern i on)
AddMatching(hints, table, s, i) ==
    AddHints(hints, SelectSeq(SubSeq(table, i, Len(table)), LAMBDA p : Test(p, s)), 1)

RECURSIVE AddParentHints(_, _, _)
AddParentHints(hints, pathSegments, i) ==
    IF i > Len(pathSegments) THEN hints
    ELSE IF pathSegments[i] # <<>> /\ pathSegments[i][1] = "["
         THEN AddParentHints(hints, pathSegments, i + 1)
         ELSE AddParentHints(AddMatching(hints, PII_PARENT_PATTERNS, pathSegments[i], 1),
                             pathSegments, i + 1)

RECURSIVE AddCustomHints(_, _, _, _)
AddCustomHints(hints, path, customPatterns, i) ==
    IF i > Len(customPatterns) THEN hints
    ELSE LET pattern == customPatterns[i]
             lastPiece == Last(SplitOn(DropSuffix(pattern, <<".", "*">>), DOT))
             patternName == IF lastPiece # <<>> THEN lastPiece ELSE pattern
         IN  AddCustomHints(
                IF matchCustomPattern(path, pattern) THEN SetAdd(hints, patternName) ELSE hints,
                path, customPatterns, i + 1)

\* customPatterns: the list, or <<>> when there is none
detectPII(path, value, customPatterns) ==
    LET fieldName == LastPieceOr(path)
        h1 == AddMatching(<<>>, PII_FIELD_PATTERNS, fieldName, 1)
        h2 == AddParentHints(h1, SplitOn(path, DOT), 1)
        h3 == AddCustomHints(h2, path, customPatterns, 1)
    IN  IF value.k = "str" THEN AddMatching(h3, PII_VALUE_PATTERNS, value.s, 1) ELSE h3

hasPII(value, path, customPatterns) == Len(detectPII(path, value, customPatterns)) > 0

-----------------------------------------------------------------------------
(* mask *)

MAX_MASKED_LENGTH == 10
MIN_VISIBLE_CHARS == 3
MIN_VISIBLE_RATIO == 4

Stars(n) == [j \in 1..n |-> "*"]

maskString(value, mode) ==
    IF Len(value) <= 2 THEN Stars(Len(value))
    ELSE IF mode = "strict"
    THEN <<value[1]>> \o Stars(Min(Len(value) - 1, MAX_MASKED_LENGTH))
    ELSE IF Len(value) <= MIN_VISIBLE_RATIO
    THEN <<value[1]>> \o Stars(Len(value) - 2) \o <<value[Len(value)]>>
    ELSE LET visibleChars == Min(MIN_VISIBLE_CHARS, Len(value) \div MIN_VISIBLE_RATIO)
             maskedLength == Min(Len(value) - visibleChars * 2, MAX_MASKED_LENGTH)
         IN  SubSeq(value, 1, visibleChars) \o Stars(maskedLength)
             \o SubSeq(value, Len(value) - visibleChars + 1, Len(value))

UndefinedChars == <<"u", "n", "d", "e", "f", "i", "n", "e", "d">>

maskEmail(email) ==
    LET parts == SplitOn(email, "@")
        local == parts[1]
        \* [local, domain] = email.split('@'): domain is falsy when there is
        \* no '@' or nothing between the first '@' and the next
        domain == IF Len(parts) >= 2 THEN parts[2] ELSE <<>>
    IN  IF domain = <<>> THEN maskString(email, "balanced")
        ELSE LET maskedLocal == IF Len(local) > 1 THEN <<local[1]>> \o <<"*", "*", "*">> ELSE <<"*">>
                 domainParts == SplitOn(domain, DOT)
                 \* domainParts[0][0] of an empty label is undefined
                 first == IF domainParts[1] # <<>> THEN <<domainParts[1][1]>>
                          ELSE UndefinedChars
                 maskedDomain == IF Len(domainParts) > 1
                                 THEN first \o <<"*", "*", "*", ".">> \o Last(domainParts)
                                 ELSE maskString(domain, "balanced")
             IN  maskedLocal \o <<"@">> \o maskedDomain

maskPhone(phone) ==
    LET digits == SelectSeq(phone, LAMBDA ch : ch \in Digits)
    IN  IF Len(digits) < 4 THEN Stars(Len(phone))
        ELSE Stars(Len(digits) - 4) \o SubSeq(digits, Len(digits) - 3, Len(digits))

maskNumber(value) ==
    LET str == IntToChars(value)
    IN  IF Len(str) <= 2 THEN str
        ELSE <<str[1]>> \o Stars(Len(str) - 2) \o <<str[Len(str)]>>

Contains(seq, x) == \E j \in 1..Len(seq) : seq[j] = x

BoolChars(value) == IF value.n = 1 THEN <<"t", "r", "u", "e">> ELSE <<"f", "a", "l", "s", "e">>

ReplaceDigits(s) == [j \in 1..Len(s) |-> IF s[j] \in Digits THEN "*" ELSE s[j]]

RedactedExample(value, type, hints) == [value |-> value, type |-> type, hints |-> hints]

\* the value of the example that mask returns, by the kind of the value
maskedValue(value, hints, mode) ==
    IF value.k = "null" THEN <<"n", "u", "l", "l">>
    ELSE IF value.k = "undefined" THEN UndefinedChars
    ELSE IF value.k = "bool" THEN BoolChars(value)
    ELSE IF value.k = "num" THEN maskNumber(value.n)
    ELSE IF value.k = "str"
    THEN IF Contains(hints, <<"e", "m", "a", "i", "l">>) THEN maskEmail(value.s)
         ELSE IF Contains(hints, <<"p", "h", "o", "n", "e">>) THEN maskPhone(value.s)
         ELSE maskString(value.s, mode)
    ELSE IF value.k = "date" THEN ReplaceDigits(value.s)
    ELSE IF value.k = "arr"
    THEN <<"[", "A", "r", "r", "a", "y", "(">> \o IntToChars(Len(value.c)) \o <<")", "]">>
    ELSE IF value.k = "bson"
            /\ value.tag \in {<<"O", "b", "j", "e", "c", "t", "I", "d">>,
                              <<"O", "b", "j", "e", "c", "t", "I", "D">>}
    THEN maskString(value.s, mode)
    ELSE IF value.k = "bson" THEN <<"[">> \o value.tag \o <<"]">>
    ELSE <<"{", "O", "b", "j", "e", "c", "t", "(">> \o IntToChars(Len(value.c))
         \o <<" ", "k", "e", "y", "s", ")", "}">>

\* every branch of mask returns {value, type, hints} with the type and the
\* hints computed at its head
mask(value, path, mode) ==
    LET type == detectBsonType(value)
        hints == detectPII(path, value, <<>>)
    IN  RedactedExample(maskedValue(value, hints, mode), type, hints)

-----------------------------------------------------------------------------
(* The aggregator *)

DEFAULT_TOTAL_DOCS == 100
\* optionalThreshold 0.95, in hundredths
DEFAULT_OPTIONAL_THRESHOLD == 95
DEFAULT_EXAMPLES_PER_TYPE == 3

\* piiPatterns: the list of custom patterns, <<>> when the option is not set
DEFAULT_OPTIONS ==
    [totalDocs |-> DEFAULT_TOTAL_DOCS,
     optionalThreshold |-> DEFAULT_OPTIONAL_THRESHOLD,
     examplesPerType |-> DEFAULT_EXAMPLES_PER_TYPE,
     redact |-> "pii",
     redactMode |-> "balanced",
     piiPatterns |-> <<>>]

Keys(value) == [j \in 1..Len(value.c) |-> value.c[j].key]

\* a wrapper other than an ObjectId or a Binary is formatted by the keys of
\* the wrapper object, which c then holds; s of a Binary is the hex of its
\* buffer
formatValue(value) ==
    IF value.k = "null" THEN <<"n", "u", "l", "l">>
    ELSE IF value.k = "undefined" THEN UndefinedChars
    ELSE IF value.k = "arr" THEN <<"[", "A", "r", "r", "a", "y", "(">> \o IntToChars(Len(value.c)) \o <<")", "]">>
    ELSE IF value.k = "date" THEN value.s
    ELSE IF value.k = "bson" /\ value.tag = <<"O", "b", "j", "e", "c", "t", "I", "d">> THEN value.s
    ELSE IF value.k = "bson" /\ value.tag = <<"B", "i", "n", "a", "r", "y">> THEN value.s
    ELSE IF value.k \in {"obj", "bson"}
    THEN LET keys == Keys(value)
         IN  IF Len(keys) = 0 THEN <<"{", "}">>
             ELSE IF Len(keys) <= 3 THEN <<"{">> \o JoinWith(keys, <<",", " ">>) \o <<"}">>
             ELSE <<"{">> \o JoinWith(SubSeq(keys, 1, 3), <<",", " ">>) \o <<".", ".", ".", "}">>
    ELSE IF value.k = "num" THEN IntToChars(value.n)
    ELSE IF value.k = "bool" THEN BoolChars(value)
    ELSE value.s

\* the example of one PathValue when the custom patterns are left out
exampleOfBuiltinOnly(pv, path, options) ==
    IF options.redact = "all"
    THEN mask(pv.value, path, options.redactMode)
    ELSE IF options.redact = "pii" /\ hasPII(pv.value, path, <<>>)
    THEN mask(pv.value, path, options.redactMode)
    ELSE RedactedExample(formatValue(pv.value), pv.type,
                         detectPII(path, pv.value, options.piiPatterns))

\* the example of one PathValue under the redaction policy
exampleOf(pv, path, options) ==
    IF options.redact = "all"
    THEN mask(pv.value, path, options.redactMode)
    ELSE IF options.redact = "pii" /\ hasPII(pv.value, path, options.piiPatterns)
    THEN mask(pv.value, path, options.redactMode)
    ELSE RedactedExample(formatValue(pv.value), pv.type,
                         detectPII(path, pv.value, options.piiPatterns))

\* Map<BsonType, PathValue[]> in insertion order
RECURSIVE groupByType(_, _, _)
groupByType(byType, values, j) ==
    IF j > Len(values) THEN byType
    ELSE LET hit == {g \in 1..Len(byType) : byType[g].type = values[j].type}
         IN  groupByType(
                IF hit = {}
                THEN Append(byType, [type |-> values[j].type, values |-> <<values[j]>>])
                ELSE [g \in 1..Len(byType) |->
                        IF g \in hit
                        THEN [byType[g] EXCEPT !.values = Append(@, values[j])]
                        ELSE byType[g]],
                values, j + 1)

\* the inner loop of collectExamples over the values of one type, from j
RECURSIVE collectOfType(_, _, _, _, _, _)
collectOfType(acc, typeValues, j, collected, path, options) ==
    IF j > Len(typeValues) \/ collected >= options.examplesPerType THEN acc
    ELSE LET example == exampleOf(typeValues[j], path, options)
             key == <<example.type, example.value>>
         IN  IF key \in acc.seenValues
             THEN collectOfType(acc, typeValues, j + 1, collected, path, options)
             ELSE collectOfType([examples |-> Append(acc.examples, example),
                                 seenValues |-> acc.seenValues \cup {key}],
                                typeValues, j + 1, collected + 1, path, options)

\* the outer loop of collectExamples over the types, from g
RECURSIVE collectTypes(_, _, _, _, _)
collectTypes(acc, byType, g, path, options) ==
    IF g > Len(byType) THEN acc
    ELSE collectTypes(collectOfType(acc, byType[g].values, 1, 0, path, options),
                      byType, g + 1, path, options)

collectExamples(values, path, options) ==
    collectTypes([examples |-> <<>>, seenValues |-> {}],
                 groupByType(<<>>, values, 1), 1, path, options).examples

\* a distribution that counts each observed type once
typePresence(values) ==
    LET byType == groupByType(<<>>, values, 1)
    IN  [g \in 1..Len(byType) |-> [type |-> byType[g].type, count |-> 1]]

\* Map<BsonType, number> in insertion order
getTypeDistribution(values) ==
    LET byType == groupByType(<<>>, values, 1)
    IN  [g \in 1..Len(byType) |->
            [type |-> byType[g].type, count |-> Len(byType[g].values)]]

\* a ratio is kept as numerator and denominator
Ratio(num, den) == [num |-> num, den |-> den]

calculateTypeRatio(typeCounts, total) ==
    [g \in 1..Len(typeCounts) |->
        [type |-> typeCounts[g].type, ratio |-> Ratio(typeCounts[g].count, total)]]

hasMixedTypes(typeCounts) ==
    Cardinality({g \in 1..Len(typeCounts) :
                    typeCounts[g].type \notin {"null", "undefined"}}) > 1

isNumericType(type) == type \in {"int", "long", "double", "decimal"}

RECURSIVE SumSeq(_)
SumSeq(numbers) ==
    IF numbers = <<>> THEN 0 ELSE numbers[1] + SumSeq(Tail(numbers))

\* avg is kept as the ratio sum / length
calculateStats(numbers) ==
    IF Len(numbers) = 0
    THEN [min |-> 0, max |-> 0, avg |-> Ratio(0, 1)]
    ELSE [min |-> CHOOSE m \in {numbers[j] : j \in 1..Len(numbers)} :
                    \A j \in 1..Len(numbers) : m <= numbers[j],
          max |-> CHOOSE m \in {numbers[j] : j \in 1..Len(numbers)} :
                    \A j \in 1..Len(numbers) : m >= numbers[j],
          avg |-> Ratio(SumSeq(numbers), Len(numbers))]

\* Number(v.value) is a number for a "num"; the other values of a numeric
\* type are the "[type]" strings of a path.[*] entry, which give NaN
IsNumber(value) == value.k = "num"

NoStats == [present |-> FALSE, min |-> 0, max |-> 0, avg |-> Ratio(0, 1)]

\* presentRatio < optionalThreshold, the ratio being presentDocs / totalDocs
\* (a division by zero gives Infinity or NaN, which is below no threshold)
BelowThreshold(presentDocs, totalDocs, threshold) ==
    IF totalDocs = 0 THEN FALSE
    ELSE presentDocs * 100 < threshold * totalDocs

UnionHints(examples) ==
    LET RECURSIVE addAll(_, _, _)
        addAll(hints, hs, j) ==
            IF j > Len(hs) THEN hints ELSE addAll(SetAdd(hints, hs[j]), hs, j + 1)
        RECURSIVE over(_, _)
        over(hints, e) ==
            IF e > Len(examples) THEN hints
            ELSE over(addAll(hints, examples[e].hints, 1), e + 1)
    IN  over(<<>>, 1)

\* one count per value
countValues(values) == Len(values)

\* new Set(values.map(v => v.docIndex)).size
countDocs(values) == Cardinality({values[j].docIndex : j \in 1..Len(values)})

aggregatePath(path, values, opts) ==
    LET presentDocs == countDocs(values)
        typeCounts == getTypeDistribution(values)
        examples == collectExamples(values, path, opts)
        numericValues == SelectSeq(values, LAMBDA v : isNumericType(v.type))
        coercible == SelectSeq(numericValues, LAMBDA v : IsNumber(v.value))
        numbers == [j \in 1..Len(coercible) |-> coercible[j].value.n]
    IN  [path |-> path,
         presentRatio |-> Ratio(presentDocs, opts.totalDocs),
         presentCount |-> presentDocs,
         absentCount |-> opts.totalDocs - presentDocs,
         typeRatio |-> calculateTypeRatio(typeCounts, Len(values)),
         typeCounts |-> typeCounts,
         examples |-> examples,
         stats |-> IF Len(numericValues) > 0 /\ Len(numbers) > 0
                   THEN [present |-> TRUE] @@ calculateStats(numbers)
                   ELSE NoStats,
         optional |-> BelowThreshold(presentDocs, opts.totalDocs, opts.optionalThreshold),
         mixedType |-> hasMixedTypes(typeCounts),
         hints |-> UnionHints(examples)]

-----------------------------------------------------------------------------
(* a.localeCompare(b, undefined, {numeric: true, sensitivity: 'base'}):    *)
(* the strings are compared by their primary collation weights, a run of   *)
(* digits weighing as the number it writes.                                *)

\* the punctuation, symbols and currency signs in the order of the root
\* collation; the digits follow them, the letters follow the digits
PunctuationOrder ==
    <<" ", "_", "-", ",", ";", ":", "!", "?", ".", "'", "\"", "(", ")", "[", "]",
      "{", "}", "@", "*", "/", "\\", "&", "#", "%", "^", "+", "<", "=", ">",
      "|", "~", "$">>

DigitRank == Len(PunctuationOrder) + 1

CharRank(ch) ==
    IF \E i \in 1..Len(PunctuationOrder) : PunctuationOrder[i] = ch
    THEN CHOOSE i \in 1..Len(PunctuationOrder) : PunctuationOrder[i] = ch
    ELSE DigitRank + (CHOOSE i \in 1..26 : LowerSeq[i] = ToLowerChar(ch))

DigitValue(ch) == (CHOOSE i \in 1..10 : Digit10[i] = ch) - 1

\* the weights of s from index i: <<rank, number>> per character or run
RECURSIVE CollationFrom(_, _, _)
CollationFrom(s, i, acc) ==
    IF i > Len(s) THEN acc
    ELSE IF s[i] \in Digits
         THEN IF acc # <<>> /\ Last(acc)[1] = DigitRank /\ s[i - 1] \in Digits
              THEN CollationFrom(s, i + 1,
                        [acc EXCEPT ![Len(acc)] = <<DigitRank, @[2] * 10 + DigitValue(s[i])>>])
              ELSE CollationFrom(s, i + 1, Append(acc, <<DigitRank, DigitValue(s[i])>>))
         ELSE CollationFrom(s, i + 1, Append(acc, <<CharRank(s[i]), 0>>))

CollationKey(s) == CollationFrom(s, 1, <<>>)

WeightLess(x, y) == x[1] < y[1] \/ (x[1] = y[1] /\ x[2] < y[2])

\* a.localeCompare(b) < 0
LocaleLess(a, b) ==
    LET ka == CollationKey(a)
        kb == CollationKey(b)
    IN  \E i \in 1..(Len(kb)) :
            /\ \A j \in 1..(i - 1) : j <= Len(ka) /\ ka[j] = kb[j]
            /\ \/ i > Len(ka)
               \/ (i <= Len(ka) /\ WeightLess(ka[i], kb[i]))

\* Array.prototype.sort by path: stable, so an element goes behind the
\* elements it does not precede
RECURSIVE InsertSorted(_, _)
InsertSorted(sorted, x) ==
    IF sorted = <<>> THEN <<x>>
    ELSE IF LocaleLess(x.path, sorted[Len(sorted)].path)
         THEN Append(InsertSorted(SubSeq(sorted, 1, Len(sorted) - 1), x), sorted[Len(sorted)])
         ELSE Append(sorted, x)

RECURSIVE SortByPath(_, _, _)
SortByPath(sorted, schemas, i) ==
    IF i > Len(schemas) THEN sorted
    ELSE SortByPath(InsertSorted(sorted, schemas[i]), schemas, i + 1)

WILDCARD_SUFFIX == <<".", "[", "*", "]">>

\* the loop of aggregateAll without its two skips
RECURSIVE aggregateLoopAll(_, _, _, _)
aggregateLoopAll(schemas, paths, i, options) ==
    IF i > Len(paths) THEN schemas
    ELSE aggregateLoopAll(Append(schemas, aggregatePath(paths[i].path, paths[i].values, options)),
                          paths, i + 1, options)

\* the loop of aggregateAll over the entries of paths, from entry i
RECURSIVE aggregateLoop(_, _, _, _)
aggregateLoop(schemas, paths, i, options) ==
    IF i > Len(paths) THEN schemas
    ELSE IF EndsWith(paths[i].path, WILDCARD_SUFFIX)
    THEN aggregateLoop(schemas, paths, i + 1, options)
    ELSE IF EndsWith(paths[i].path, TRUNCATED_SUFFIX)
    THEN aggregateLoop(schemas, paths, i + 1, options)
    ELSE aggregateLoop(Append(schemas, aggregatePath(paths[i].path, paths[i].values, options)),
                       paths, i + 1, options)

aggregateAll(paths, options) ==
    SortByPath(<<>>, aggregateLoop(<<>>, paths, 1, options), 1)

-----------------------------------------------------------------------------
(* The variant analysis: shape paths, signatures, groups and diffs *)

DEFAULT_SHAPE_MAX_DEPTH == 2
SIGNATURE_PREFIX_LENGTH == 8
DEFAULT_TOP_N == 10

\* a.localeCompare(b, undefined, {numeric: true, sensitivity: 'base'}) per
\* segment, then the difference of the segment counts
RECURSIVE compareParts(_, _, _)
compareParts(partsA, partsB, i) ==
    IF i > Min(Len(partsA), Len(partsB)) THEN Len(partsA) - Len(partsB)
    ELSE IF LocaleLess(partsA[i], partsB[i]) THEN -1
    ELSE IF LocaleLess(partsB[i], partsA[i]) THEN 1
    ELSE compareParts(partsA, partsB, i + 1)

comparePaths(a, b) == compareParts(SplitOn(a, DOT), SplitOn(b, DOT), 1)

\* the stable sort of Array.prototype.sort: x goes behind the elements it
\* does not precede
RECURSIVE InsertPath(_, _)
InsertPath(sorted, x) ==
    IF sorted = <<>> THEN <<x>>
    ELSE IF comparePaths(x, sorted[Len(sorted)]) < 0
         THEN Append(InsertPath(SubSeq(sorted, 1, Len(sorted) - 1), x), sorted[Len(sorted)])
         ELSE Append(sorted, x)

RECURSIVE SortPathsFrom(_, _, _)
SortPathsFrom(sorted, paths, i) ==
    IF i > Len(paths) THEN sorted
    ELSE SortPathsFrom(InsertPath(sorted, paths[i]), paths, i + 1)

sortPaths(paths) == SortPathsFrom(<<>>, paths, 1)

\* the hash, taken as injective: the digest of a text stands for the text
sha256(text) == <<"#">> \o text

generateSignature(paths) == sha256(JoinWith(sortPaths(paths), <<"|">>))

Truthy(v) ==
    CASE v.k \in {"null", "undefined"} -> FALSE
      [] v.k = "bool" -> v.n = 1
      [] v.k = "num" -> v.n # 0
      [] v.k = "str" -> v.s # <<>>
      [] OTHER -> TRUE

\* record._bsontype is truthy
HasBsonType(record) ==
    \E j \in 1..Len(record.c) :
        record.c[j].key = <<"_", "b", "s", "o", "n", "t", "y", "p", "e">> /\ Truthy(record.c[j].val)

PushPath(paths, currentPath) == IF currentPath # <<>> THEN Append(paths, currentPath) ELSE paths

RECURSIVE shapeTraverse(_, _, _, _, _)
RECURSIVE shapeKeys(_, _, _, _, _, _)
shapeTraverse(paths, obj, currentPath, depth, maxDepth) ==
    IF depth > maxDepth THEN PushPath(paths, currentPath)
    ELSE IF obj.k # "obj" THEN PushPath(paths, currentPath)
    ELSE IF HasBsonType(obj) THEN PushPath(paths, currentPath)
    ELSE shapeKeys(paths, obj, currentPath, depth, maxDepth, 1)

shapeKeys(paths, record, currentPath, depth, maxDepth, j) ==
    IF j > Len(record.c) THEN paths
    ELSE LET key == record.c[j].key
             newPath == IF currentPath # <<>> THEN currentPath \o <<DOT>> \o key ELSE key
         IN  shapeKeys(shapeTraverse(paths, record.c[j].val, newPath, depth + 1, maxDepth),
                       record, currentPath, depth, maxDepth, j + 1)

extractShapePaths(doc, maxDepth) == shapeTraverse(<<>>, doc, <<>>, 0, maxDepth)

\* a diff with the two roles exchanged
calculateDiffSwapped(primaryPaths, variantPaths) ==
    [addedPaths |-> sortPaths(SelectSeq(primaryPaths, LAMBDA p : ~Contains(variantPaths, p))),
     missingPaths |-> sortPaths(SelectSeq(variantPaths, LAMBDA p : ~Contains(primaryPaths, p)))]

calculateDiff(primaryPaths, variantPaths) ==
    [addedPaths |-> sortPaths(SelectSeq(variantPaths, LAMBDA p : ~Contains(primaryPaths, p))),
     missingPaths |-> sortPaths(SelectSeq(primaryPaths, LAMBDA p : ~Contains(variantPaths, p)))]

\* signatureGroups, a Map in insertion order: <<[signature, paths, count]>>
RECURSIVE groupBySignature(_, _, _)
groupBySignature(groups, documents, i) ==
    IF i > Len(documents) THEN groups
    ELSE LET paths == extractShapePaths(documents[i], DEFAULT_SHAPE_MAX_DEPTH)
             sig == generateSignature(paths)
         IN  groupBySignature(
                IF \E g \in 1..Len(groups) : groups[g].signature = sig
                THEN [g \in 1..Len(groups) |->
                        IF groups[g].signature = sig
                        THEN [groups[g] EXCEPT !.count = @ + 1] ELSE groups[g]]
                ELSE Append(groups, [signature |-> sig, paths |-> paths, count |-> 1]),
                documents, i + 1)

\* sort((a, b) => b.count - a.count), stable
RECURSIVE InsertByCount(_, _)
InsertByCount(sorted, x) ==
    IF sorted = <<>> THEN <<x>>
    ELSE IF sorted[Len(sorted)].count - x.count < 0
         THEN Append(InsertByCount(SubSeq(sorted, 1, Len(sorted) - 1), x), sorted[Len(sorted)])
         ELSE Append(sorted, x)

RECURSIVE SortByCount(_, _, _)
SortByCount(sorted, groups, i) ==
    IF i > Len(groups) THEN sorted
    ELSE SortByCount(InsertByCount(sorted, groups[i]), groups, i + 1)

\* the sorted groups without the cut
allGroups(groups, topN) == SortByCount(<<>>, groups, 1)

\* .sort(...).slice(0, topN), for topN >= 0
topGroups(groups, topN) ==
    SubSeq(SortByCount(<<>>, groups, 1), 1, Min(topN, Len(groups)))

NoDiff == [addedPaths |-> <<>>, missingPaths |-> <<>>]

Variant(group, index, totalDocs, primaryPaths) ==
    [signature |-> SubSeq(group.signature, 1, Min(SIGNATURE_PREFIX_LENGTH, Len(group.signature))),
     count |-> group.count,
     ratio |-> Ratio(group.count, totalDocs),
     paths |-> group.paths,
     diff |-> IF index = 0 THEN NoDiff ELSE calculateDiff(primaryPaths, group.paths)]

analyzeVariants(documents, options) ==
    IF Len(documents) = 0 THEN <<>>
    ELSE LET sorted == topGroups(groupBySignature(<<>>, documents, 1), options.topN)
         IN  IF Len(sorted) = 0 THEN <<>>
             ELSE [g \in 1..Len(sorted) |->
                     Variant(sorted[g], g - 1, Len(documents), sorted[1].paths)]

-----------------------------------------------------------------------------
(* No library call under study *)

RunsOff == explain = <<>> /\ cli = <<>>

CallsOff ==
    /\ RunsOff
    /\ fn = "off"
    /\ arg = <<>>
    /\ ret = <<>>
    /\ pool = <<>>

-----------------------------------------------------------------------------
(* The pipeline at rest, for the codec run *)

PipelineOff ==
    /\ phase = "off"
    /\ docs = <<>>
    /\ limits = DEFAULT_LIMITS
    /\ fl = NewContext(0)
    /\ results = <<>>
    /\ merged = EmptyResult
    /\ fields = <<>>
    /\ aggOpts = DEFAULT_OPTIONS

-----------------------------------------------------------------------------
(* The codec run: a key is escaped and unescaped, a segment list is joined  *)
(* and split.                                                              *)

KeyChars == {"a", DOT, DOLLAR, BS, NUL}
SegChars == {"a", DOT, BS}

CodecKeys == SeqsUpTo(KeyChars, MaxKeyLen)
CodecSegLists == SeqsUpTo(SeqsUpTo(SegChars, MaxSegLen), MaxSegs)

InitCodec ==
    /\ \/ cpc = "key" /\ cKey \in CodecKeys /\ cSegs = <<>>
       \/ cpc = "segments" /\ cKey = <<>> /\ cSegs \in CodecSegLists
    /\ cEsc = <<>>
    /\ cBack = <<>>
    /\ cJoined = <<>>
    /\ cSplit = <<>>
    /\ PipelineOff
    /\ CallsOff

Escape ==
    /\ cpc = "key"
    /\ cEsc' = escapeKey(cKey)
    /\ cpc' = "escaped"
    /\ UNCHANGED <<cKey, cBack, cSegs, cJoined, cSplit>>
    /\ UNCHANGED <<pipeVars, callVars, runVars>>

Unescape ==
    /\ cpc = "escaped"
    /\ cBack' = unescapeKey(cEsc)
    /\ cpc' = "unescaped"
    /\ UNCHANGED <<cKey, cEsc, cSegs, cJoined, cSplit>>
    /\ UNCHANGED <<pipeVars, callVars, runVars>>

Join ==
    /\ cpc = "segments"
    /\ cJoined' = joinPath(cSegs)
    /\ cpc' = "joined"
    /\ UNCHANGED <<cKey, cEsc, cBack, cSegs, cSplit>>
    /\ UNCHANGED <<pipeVars, callVars, runVars>>

Split ==
    /\ cpc = "joined"
    /\ cSplit' = splitPath(cJoined)
    /\ cpc' = "split"
    /\ UNCHANGED <<cKey, cEsc, cBack, cSegs, cJoined>>
    /\ UNCHANGED <<pipeVars, callVars, runVars>>

NextCodec == Escape \/ Unescape \/ Join \/ Split

SpecCodec == InitCodec /\ [][NextCodec]_vars

-----------------------------------------------------------------------------
(* The pipeline of processCollection: every sampled document is flattened  *)
(* with its index, the results are merged, the merged paths aggregated.    *)

StartFlatten ==
    /\ phase = "idle"
    /\ Len(results) < Len(docs)
    /\ fl' = flattenStart(docs[Len(results) + 1], Len(results))
    /\ phase' = "flatten"
    /\ UNCHANGED <<docs, limits, results, merged, fields, aggOpts>>
    /\ UNCHANGED <<codecVars, callVars, runVars>>

FlattenRunning(op) ==
    /\ phase = "flatten"
    /\ fl.stack # <<>>
    /\ TopFrame(fl).op = op

TraverseRootKey ==
    /\ FlattenRunning("root")
    /\ fl' = rootIteration(fl, limits)
    /\ UNCHANGED <<phase, docs, limits, results, merged, fields, aggOpts>>
    /\ UNCHANGED <<codecVars, callVars, runVars>>

TraverseObjectKey ==
    /\ FlattenRunning("keys")
    /\ fl' = keyIteration(fl, limits)
    /\ UNCHANGED <<phase, docs, limits, results, merged, fields, aggOpts>>
    /\ UNCHANGED <<codecVars, callVars, runVars>>

SampleArrayElement ==
    /\ FlattenRunning("elems")
    /\ fl' = elementIteration(fl, limits)
    /\ UNCHANGED <<phase, docs, limits, results, merged, fields, aggOpts>>
    /\ UNCHANGED <<codecVars, callVars, runVars>>

AddElementType ==
    /\ FlattenRunning("types")
    /\ fl' = typeIteration(fl, limits)
    /\ UNCHANGED <<phase, docs, limits, results, merged, fields, aggOpts>>
    /\ UNCHANGED <<codecVars, callVars, runVars>>

ReturnFlatten ==
    /\ phase = "flatten"
    /\ fl.stack = <<>>
    /\ results' = Append(results, FlattenResult(fl))
    /\ phase' = "idle"
    /\ UNCHANGED <<docs, limits, fl, merged, fields, aggOpts>>
    /\ UNCHANGED <<codecVars, callVars, runVars>>

Merge ==
    /\ phase = "idle"
    /\ Len(results) = Len(docs)
    /\ merged' = mergeFlattenResults(results)
    /\ phase' = "merged"
    /\ UNCHANGED <<docs, limits, fl, results, fields, aggOpts>>
    /\ UNCHANGED <<codecVars, callVars, runVars>>

\* the values of config.redact, config.redactMode and config.piiPatterns
RedactChoices == {"all", "pii", "off"}
RedactModeChoices == {"strict", "balanced"}
PiiPatternChoices == {<<>>, <<<<"a", ".", "*">>>>}

\* totalDocs is sampleResult.actualSize, the number of sampled documents
Aggregate ==
    /\ phase = "merged"
    /\ \E redact \in RedactChoices, redactMode \in RedactModeChoices,
          piiPatterns \in PiiPatternChoices :
            /\ aggOpts' = [DEFAULT_OPTIONS EXCEPT !.totalDocs = Len(docs),
                                                  !.redact = redact,
                                                  !.redactMode = redactMode,
                                                  !.piiPatterns = piiPatterns]
            /\ fields' = aggregateAll(merged.paths, aggOpts')
    /\ phase' = "aggregated"
    /\ UNCHANGED <<docs, limits, fl, results, merged>>
    /\ UNCHANGED <<codecVars, callVars, runVars>>

Next ==
    \/ StartFlatten
    \/ TraverseRootKey
    \/ TraverseObjectKey
    \/ SampleArrayElement
    \/ AddElementType
    \/ ReturnFlatten
    \/ Merge
    \/ Aggregate

CodecIdle ==
    /\ cpc = "idle"
    /\ cKey = <<>>
    /\ cEsc = <<>>
    /\ cBack = <<>>
    /\ cSegs = <<>>
    /\ cJoined = <<>>
    /\ cSplit = <<>>

PipelineStart ==
    /\ CodecIdle
    /\ CallsOff
    /\ phase = "idle"
    /\ fl = NewContext(0)
    /\ results = <<>>
    /\ merged = EmptyResult
    /\ fields = <<>>
    /\ aggOpts = DEFAULT_OPTIONS

-----------------------------------------------------------------------------
(* One document under every combination of limits *)

MaxNesting == 2
MaxArrayLen == 2
MaxSmallDepth == 2
MaxSmallKeys == 3
MaxSmallSample == 1

FlattenLeaves == {NumV(1), StrV(<<"x">>)}
FlattenKeys == {<<"a">>, <<>>}

RECURSIVE FlattenValues(_)
FlattenValues(d) ==
    IF d = 0 THEN FlattenLeaves
    ELSE FlattenLeaves
         \cup {ObjV(<<Entry(k, v)>>) : k \in FlattenKeys, v \in FlattenValues(d - 1)}
         \cup {ObjV(<<Entry(<<"a">>, u), Entry(<<>>, w)>>) : u \in FlattenLeaves, w \in FlattenLeaves}
         \cup {ArrV(es) : es \in SeqsUpTo(FlattenValues(d - 1), MaxArrayLen)}

FlattenDocs ==
    {ObjV(<<Entry(k, v)>>) : k \in FlattenKeys, v \in FlattenValues(MaxNesting)}
    \cup {ObjV(<<Entry(<<"a">>, v), Entry(<<>>, w)>>) :
            v \in FlattenValues(MaxNesting - 1), w \in FlattenLeaves}

LimitChoices ==
    [maxDepth : 1..MaxSmallDepth \cup {DEFAULT_MAX_DEPTH},
     maxKeysPerDoc : 1..MaxSmallKeys \cup {DEFAULT_MAX_KEYS_PER_DOC},
     maxArraySample : 1..MaxSmallSample \cup {DEFAULT_MAX_ARRAY_SAMPLE}]

InitFlatten ==
    /\ PipelineStart
    /\ \E doc \in FlattenDocs : docs = <<doc>>
    /\ limits \in LimitChoices

\* a flatten call from its start to its return
NextFlatten ==
    \/ StartFlatten
    \/ TraverseRootKey
    \/ TraverseObjectKey
    \/ SampleArrayElement
    \/ AddElementType
    \/ ReturnFlatten

SpecFlatten == InitFlatten /\ [][NextFlatten]_vars

-----------------------------------------------------------------------------
(* One flatten call under limits of any sign, run to its return: the call  *)
(* is synchronous and nothing but its own steps can delay it               *)

LooseLimits ==
    [maxDepth : {-1, 0, 1, DEFAULT_MAX_DEPTH},
     maxKeysPerDoc : {-1, 0, MaxSmallKeys, DEFAULT_MAX_KEYS_PER_DOC},
     maxArraySample : {-1, 0, 1, DEFAULT_MAX_ARRAY_SAMPLE}]

InitFlattenLive ==
    /\ PipelineStart
    /\ \E doc \in FlattenDocs : docs = <<doc>>
    /\ \E options \in LooseLimits : limits = createLimits(options)

SpecFlattenLive == InitFlattenLive /\ [][NextFlatten]_vars /\ WF_vars(NextFlatten)

-----------------------------------------------------------------------------
(* A batch of documents *)

MaxBatch == 2

BatchLeaves == {NumV(123), StrV(<<"1", "2", "3", "4">>)}
BatchKeys == {<<"a">>, <<"c", "i">>, <<DOT>>}
BatchObjects == {ObjV(<<Entry(k, v)>>) : k \in BatchKeys, v \in BatchLeaves}
BatchElements ==
    {NumV(123), ObjV(<<Entry(<<"a">>, NumV(123))>>),
     ObjV(<<Entry(<<"c", "i">>, StrV(<<"1", "2", "3", "4">>))>>)}
BatchValues ==
    BatchLeaves \cup BatchObjects
    \cup {ArrV(es) : es \in SeqsUpTo(BatchElements, MaxArrayLen)}

BatchDocs == {ObjV(<<>>)} \cup {ObjV(<<Entry(<<"a">>, v)>>) : v \in BatchValues}

BatchLimits == {DEFAULT_LIMITS, [DEFAULT_LIMITS EXCEPT !.maxDepth = 1]}

Init ==
    /\ PipelineStart
    /\ docs \in SeqsUpTo(BatchDocs, MaxBatch)
    /\ limits \in BatchLimits

Spec == Init /\ [][Next]_vars

-----------------------------------------------------------------------------
(* The library calls under study start with the codec and the pipeline at  *)
(* rest.                                                                   *)

CallStart == CodecIdle /\ PipelineOff /\ RunsOff /\ pool = <<>> /\ ret = <<>>

-----------------------------------------------------------------------------
(* A mask call on one value *)

MaxMaskNumber == 1200

MaskValues == {NumV(n) : n \in (-MaxMaskNumber)..MaxMaskNumber}
MaskPaths == {<<"f", "i", "e", "l", "d">>, <<"p", "h", "o", "n", "e">>}
MaskModes == {<<"s", "t", "r", "i", "c", "t">>, <<"b", "a", "l", "a", "n", "c", "e", "d">>}

InitMask ==
    /\ CallStart
    /\ fn = "mask"
    /\ arg \in [value : MaskValues, path : MaskPaths, mode : MaskModes]

Mask ==
    /\ fn = "mask"
    /\ ret' = mask(arg.value, arg.path, arg.mode)
    /\ fn' = "masked"
    /\ UNCHANGED <<arg, pool>>
    /\ UNCHANGED <<codecVars, pipeVars, runVars>>

NextMask == Mask

SpecMask == InitMask /\ [][NextMask]_vars

-----------------------------------------------------------------------------
(* A mask call on one string *)

MaxMaskString == 5

MaskStringChars == {"1", "a", "@"}
MaskStrings == {StrV(s) : s \in SeqsUpTo(MaskStringChars, MaxMaskString) \ {<<>>}}
MaskStringPaths == MaskPaths \cup {<<"e", "m", "a", "i", "l">>}

InitMaskString ==
    /\ CallStart
    /\ fn = "mask"
    /\ arg \in [value : MaskStrings, path : MaskStringPaths, mode : RedactModeChoices]

SpecMaskString == InitMaskString /\ [][NextMask]_vars

-----------------------------------------------------------------------------
(* A detectPII call with custom patterns *)

MaxDetectSegs == 3

DetectSegments == {<<"k">>, <<"K">>, <<"x">>, <<"k", "[", "*", "]">>, <<"[", "*", "]">>, <<>>}
DetectPaths == {JoinWith(segs, DOT) : segs \in SeqsUpTo(DetectSegments, MaxDetectSegs) \ {<<>>}}
DetectPatterns ==
    {<<>>, <<<<"k", ".", "*">>>>, <<<<"K", ".", "*">>>>, <<<<"k">>>>, <<<<"x", ".", "k">>>>, <<<<"x", ".", "k", ".", "*">>>>, <<<<".", "*">>>>,
     <<<<"k", ".", "*">>, <<"x">>>>}

InitDetect ==
    /\ CallStart
    /\ fn = "detectPII"
    /\ arg \in [path : DetectPaths, value : {StrV(<<"v">>)}, customPatterns : DetectPatterns]

Detect ==
    /\ fn = "detectPII"
    /\ ret' = detectPII(arg.path, arg.value, arg.customPatterns)
    /\ fn' = "detected"
    /\ UNCHANGED <<arg, pool>>
    /\ UNCHANGED <<codecVars, pipeVars, runVars>>

NextDetect == Detect

SpecDetect == InitDetect /\ [][NextDetect]_vars

-----------------------------------------------------------------------------
(* generateSignature on two path lists *)

MaxSignaturePaths == 3

SignaturePaths == {<<"a">>, <<"A">>, <<"b">>, <<"a", "|", "b">>, <<"b", ".", "a">>}
SignatureLists == SeqsUpTo(SignaturePaths, MaxSignaturePaths)

InitSignature ==
    /\ CallStart
    /\ fn = "generateSignature"
    /\ arg \in [p : SignatureLists, q : SignatureLists]

Sign ==
    /\ fn = "generateSignature"
    /\ ret' = [p |-> generateSignature(arg.p), q |-> generateSignature(arg.q)]
    /\ fn' = "signed"
    /\ UNCHANGED <<arg, pool>>
    /\ UNCHANGED <<codecVars, pipeVars, runVars>>

NextSignature == Sign

SpecSignature == InitSignature /\ [][NextSignature]_vars

-----------------------------------------------------------------------------
(* analyzeVariants on a list of documents *)

MaxVariantDocs == 3

\* Object.keys order: the keys in insertion order (none is an array index)
VariantDocs ==
    {ObjV(<<>>),
     ObjV(<<Entry(<<"a">>, NumV(1))>>),
     ObjV(<<Entry(<<"b">>, NumV(1))>>),
     ObjV(<<Entry(<<"a">>, NumV(1)), Entry(<<"b">>, NumV(2))>>),
     ObjV(<<Entry(<<"b">>, NumV(2)), Entry(<<"a">>, StrV(<<"x">>))>>),
     ObjV(<<Entry(<<"a", "1", "0">>, NumV(1)), Entry(<<"a", "9">>, NumV(2))>>),
     ObjV(<<Entry(<<"a">>, NumV(1)), Entry(<<"A">>, NumV(2))>>),
     ObjV(<<Entry(<<"A">>, NumV(2)), Entry(<<"a">>, NumV(1))>>),
     ObjV(<<Entry(<<"a">>, ObjV(<<Entry(<<"b">>, ObjV(<<Entry(<<"b">>, ObjV(<<Entry(<<"b">>, NumV(1))>>))>>))>>))>>)}

TopNChoices == {1, 2, DEFAULT_TOP_N}

InitVariants ==
    /\ CallStart
    /\ fn = "analyzeVariants"
    /\ arg \in [documents : SeqsUpTo(VariantDocs, MaxVariantDocs), topN : TopNChoices]

AnalyzeVariants ==
    /\ fn = "analyzeVariants"
    /\ ret' = analyzeVariants(arg.documents, [topN |-> arg.topN])
    /\ fn' = "analyzed"
    /\ UNCHANGED <<arg, pool>>
    /\ UNCHANGED <<codecVars, pipeVars, runVars>>

NextVariants == AnalyzeVariants

SpecVariants == InitVariants /\ [][NextVariants]_vars

-----------------------------------------------------------------------------
(* aggregateAll on two maps of the same entries in two insertion orders *)

MaxOrderPaths == 3

OrderPaths == {<<"a">>, <<"A">>, <<"b">>, <<"a", "1">>, <<"a", "0", "1">>, <<"a", ".", "[", "*", "]">>}

\* the lists of distinct paths
OrderLists ==
    {ps \in SeqsUpTo(OrderPaths, MaxOrderPaths) :
        \A i, j \in 1..Len(ps) : i # j => ps[i] # ps[j]}

\* the Map that holds one int value of document 0 under each path, the
\* paths inserted in the order of the list
MapInOrder(ps) ==
    [j \in 1..Len(ps) |->
        [path |-> ps[j],
         values |-> <<PathValue(NumV(Len(ps[j])), detectBsonType(NumV(Len(ps[j]))), 0)>>]]

InitOrder ==
    /\ CallStart
    /\ fn = "aggregateAll"
    /\ arg \in {a \in [p : OrderLists, q : OrderLists] :
                    /\ Len(a.p) = Len(a.q)
                    /\ {a.p[j] : j \in 1..Len(a.p)} = {a.q[j] : j \in 1..Len(a.q)}}

AggregateBoth ==
    /\ fn = "aggregateAll"
    /\ ret' = [order \in {"p", "q"} |->
                aggregateAll(MapInOrder(arg[order]), [DEFAULT_OPTIONS EXCEPT !.totalDocs = 1])]
    /\ fn' = "aggregated"
    /\ UNCHANGED <<arg, pool>>
    /\ UNCHANGED <<codecVars, pipeVars, runVars>>

NextOrder == AggregateBoth

SpecOrder == InitOrder /\ [][NextOrder]_vars

-----------------------------------------------------------------------------
(* Limits given to flatten: through its options, or through the options of *)
(* the command line, which the schema parses before the documents are      *)
(* flattened.                                                              *)

LimitInputs ==
    [maxDepth : {0, 1, 100, 101},
     maxKeysPerDoc : {-1, 1, 10000, 10001},
     maxArraySample : {0, 1, 1000, 1001}]

LimitDocs ==
    {ObjV(<<Entry(<<"a">>, ObjV(<<Entry(<<"a">>, NumV(1))>>))>>),
     ObjV(<<Entry(<<"a">>, ArrV(<<NumV(1), NumV(1)>>))>>)}

InitLimits ==
    /\ CodecIdle
    /\ RunsOff
    /\ fn \in {"cli", "flatten"}
    /\ arg \in LimitInputs
    /\ ret = <<>>
    /\ pool = <<>>
    /\ phase = IF fn = "cli" THEN "config" ELSE "idle"
    /\ limits = IF fn = "cli" THEN DEFAULT_LIMITS ELSE createLimits(arg)
    /\ \E doc \in LimitDocs : docs = <<doc>>
    /\ fl = NewContext(0)
    /\ results = <<>>
    /\ merged = EmptyResult
    /\ fields = <<>>
    /\ aggOpts = DEFAULT_OPTIONS

\* the schema accepts the options and processCollection hands the three
\* limits to flatten, or the parse fails
ParseOptions ==
    /\ phase = "config"
    /\ IF CLIOptionsSchema(arg)
       THEN phase' = "idle" /\ limits' = createLimits(arg)
       ELSE phase' = "rejected" /\ limits' = limits
    /\ UNCHANGED <<docs, fl, results, merged, fields, aggOpts>>
    /\ UNCHANGED <<codecVars, callVars, runVars>>

NextLimits ==
    \/ ParseOptions
    \/ StartFlatten
    \/ TraverseRootKey
    \/ TraverseObjectKey
    \/ SampleArrayElement
    \/ AddElementType
    \/ ReturnFlatten

SpecLimits == InitLimits /\ [][NextLimits]_vars

-----------------------------------------------------------------------------
(* runWithConcurrency: the loop of the async function creates one promise  *)
(* chain per item and suspends at its two awaits; the callbacks of the     *)
(* chains run as microtasks while the function is suspended.               *)

MaxItems == 3
MaxConcurrency == 3

\* the items are numbered as the loop numbers them, from 1 here
ItemsOf(p) == 1..Len(p.chain)

\* executing.size >= maxConcurrency, never true
neverWait(size, maxConcurrency) == FALSE

\* executing.size >= maxConcurrency
mustWait(size, maxConcurrency) == size >= maxConcurrency

\* a filter that keeps every entry
keepAll(result) == TRUE

\* result !== undefined
isResult(result) == result # UndefinedV

\* results.filter(...): the holes of the array are skipped, the entries
\* are tested
filterResults(entries) == SelectSeq(entries, LAMBDA r : r # <<>> /\ isResult(r[1]))

NewPool(n, maxConcurrency) ==
    [maxConcurrency |-> maxConcurrency,
     i |-> 0,
     pc |-> "loop",
     chain |-> [j \in 1..n |-> "uncreated"],
     outcome |-> [j \in 1..n |-> "none"],
     executing |-> {},
     awaited |-> {},
     winner |-> 0,
     results |-> [j \in 1..n |-> <<>>],
     returned |-> <<>>]

InitPool ==
    /\ CodecIdle
    /\ PipelineOff
    /\ RunsOff
    /\ ret = <<>>
    /\ fn = "runWithConcurrency"
    /\ arg \in [items : 0..MaxItems, maxConcurrency : 1..MaxConcurrency]
    /\ pool = NewPool(arg.items, arg.maxConcurrency)

\* one iteration of the for loop: the chain of item i is created and added
\* to executing; the function suspends at Promise.race when the set is full
CreatePromise ==
    /\ fn = "runWithConcurrency"
    /\ pool.pc = "loop"
    /\ pool.i < Len(pool.chain)
    /\ LET j == pool.i + 1
           executing == pool.executing \cup {j}
           wait == mustWait(Cardinality(executing), pool.maxConcurrency)
       IN  pool' = [pool EXCEPT !.chain[j] = "pending",
                                !.executing = executing,
                                !.i = j,
                                !.pc = IF wait THEN "race" ELSE "loop",
                                !.awaited = IF wait THEN executing ELSE @,
                                !.winner = 0]
    /\ UNCHANGED <<fn, arg, ret>>
    /\ UNCHANGED <<codecVars, pipeVars, runVars>>

\* the loop is over: await Promise.allSettled(Array.from(executing))
AwaitAllSettled ==
    /\ fn = "runWithConcurrency"
    /\ pool.pc = "loop"
    /\ pool.i = Len(pool.chain)
    /\ pool' = [pool EXCEPT !.pc = "allSettled", !.awaited = pool.executing]
    /\ UNCHANGED <<fn, arg, ret>>
    /\ UNCHANGED <<codecVars, pipeVars, runVars>>

\* a callback of a chain runs only while the function is suspended
Suspended == fn = "runWithConcurrency" /\ pool.pc \in {"race", "allSettled"}

\* Promise.resolve().then(() => fn(item, i)): the invocation starts
CallFn(j) ==
    /\ Suspended
    /\ pool.chain[j] = "pending"
    /\ pool' = [pool EXCEPT !.chain[j] = "running"]
    /\ UNCHANGED <<fn, arg, ret>>
    /\ UNCHANGED <<codecVars, pipeVars, runVars>>

\* the promise of fn(item, i) settles: with a value, with undefined, or
\* with a rejection (a throw included)
SettleFn(j) ==
    /\ Suspended
    /\ pool.chain[j] = "running"
    /\ \E outcome \in {"value", "undefined", "throw"} :
            pool' = [pool EXCEPT !.chain[j] = IF outcome = "throw" THEN "rejected" ELSE "fulfilled",
                                 !.outcome[j] = outcome]
    /\ UNCHANGED <<fn, arg, ret>>
    /\ UNCHANGED <<codecVars, pipeVars, runVars>>

\* .then((result) => { results[i] = result })
RecordResult(j) ==
    /\ Suspended
    /\ pool.chain[j] = "fulfilled"
    /\ pool' = [pool EXCEPT !.chain[j] = "handled",
                             !.results[j] = IF pool.outcome[j] = "value"
                                            THEN <<NumV(j)>> ELSE <<UndefinedV>>]
    /\ UNCHANGED <<fn, arg, ret>>
    /\ UNCHANGED <<codecVars, pipeVars, runVars>>

\* .catch(() => {}): the rejection is dropped, results[i] stays a hole
CatchError(j) ==
    /\ Suspended
    /\ pool.chain[j] = "rejected"
    /\ pool' = [pool EXCEPT !.chain[j] = "handled"]
    /\ UNCHANGED <<fn, arg, ret>>
    /\ UNCHANGED <<codecVars, pipeVars, runVars>>

\* .finally(() => { executing.delete(promise) }): the chain settles, and
\* wins the race when it is the first of the awaited set to settle
Finally(j) ==
    /\ Suspended
    /\ pool.chain[j] = "handled"
    /\ pool' = [pool EXCEPT !.chain[j] = "settled",
                             !.executing = @ \ {j},
                             !.winner = IF @ = 0 /\ pool.pc = "race" /\ j \in pool.awaited
                                        THEN j ELSE @]
    /\ UNCHANGED <<fn, arg, ret>>
    /\ UNCHANGED <<codecVars, pipeVars, runVars>>

\* Promise.race(executing) has resolved: the loop goes on
ResumeLoop ==
    /\ fn = "runWithConcurrency"
    /\ pool.pc = "race"
    /\ pool.winner # 0
    /\ pool' = [pool EXCEPT !.pc = "loop"]
    /\ UNCHANGED <<fn, arg, ret>>
    /\ UNCHANGED <<codecVars, pipeVars, runVars>>

\* Promise.allSettled has resolved: the filtered results are returned
ReturnResults ==
    /\ fn = "runWithConcurrency"
    /\ pool.pc = "allSettled"
    /\ \A j \in pool.awaited : pool.chain[j] = "settled"
    /\ LET kept == filterResults(pool.results)
       IN  /\ pool' = [pool EXCEPT !.pc = "returned",
                                    !.returned = [g \in 1..Len(kept) |-> kept[g][1]]]
           /\ ret' = pool'.returned
    /\ fn' = "returned"
    /\ UNCHANGED arg
    /\ UNCHANGED <<codecVars, pipeVars, runVars>>

NextPool ==
    \/ CreatePromise
    \/ AwaitAllSettled
    \/ \E j \in 1..MaxItems : j <= Len(pool.chain) /\ CallFn(j)
    \/ \E j \in 1..MaxItems : j <= Len(pool.chain) /\ SettleFn(j)
    \/ \E j \in 1..MaxItems : j <= Len(pool.chain) /\ RecordResult(j)
    \/ \E j \in 1..MaxItems : j <= Len(pool.chain) /\ CatchError(j)
    \/ \E j \in 1..MaxItems : j <= Len(pool.chain) /\ Finally(j)
    \/ ResumeLoop
    \/ ReturnResults

SpecPool == InitPool /\ [][NextPool]_vars

\* the event loop runs every queued callback and every invocation of fn
\* settles
SpecPoolLive == SpecPool /\ WF_vars(NextPool)

-----------------------------------------------------------------------------
(* runExplain: the cache is read, the operation is attempted in a loop     *)
(* with a backoff between attempts, the caller composes the summary.       *)

MaxRetries == 4

DEFAULT_MAX_RETRIES == 3
RETRY_BASE_DELAY_MS == 1000
BACKOFF_MULTIPLIER == 2

\* JSON.stringify and JSON.parse of a string result
JsonStringify(text) == <<"\"">> \o text \o <<"\"">>
JsonParse(json) == SubSeq(json, 2, Len(json) - 1)

Answer == <<"s", "u", "m", "m", "a", "r", "y">>
StaleAnswer == <<"c", "a", "c", "h", "e", "d">>

RECURSIVE Power(_, _)
Power(base, exponent) == IF exponent = 0 THEN 1 ELSE base * Power(base, exponent - 1)

\* the loop test with a strict bound
hasAttemptStrict(attempt, maxRetries) == attempt < maxRetries

\* attempt <= opts.maxRetries
hasAttempt(attempt, maxRetries) == attempt <= maxRetries

\* {...DEFAULT_OPTIONS, ...options}
ExplainOptions == [maxRetries : 0..MaxRetries, cacheEnabled : BOOLEAN]

InitExplain ==
    /\ CodecIdle
    /\ PipelineOff
    /\ fn = "runExplain" /\ arg = <<>> /\ ret = <<>> /\ pool = <<>>
    /\ cli = <<>>
    /\ \E opts \in ExplainOptions, cache \in {<<>>, <<JsonStringify(StaleAnswer)>>} :
            explain = [pc |-> "start",
                       opts |-> opts,
                       cache |-> cache,
                       cacheAtStart |-> cache,
                       attempt |-> 0,
                       outcomes |-> <<>>,
                       delays |-> <<>>,
                       result |-> <<>>,
                       summary |-> <<>>]

\* the cache is read; a hit returns the parsed entry
CheckCache ==
    /\ explain # <<>> /\ explain.pc = "start"
    /\ IF explain.opts.cacheEnabled /\ explain.cache # <<>>
       THEN explain' = [explain EXCEPT !.pc = "returned", !.result = JsonParse(explain.cache[1])]
       ELSE explain' = [explain EXCEPT !.pc = "loop", !.attempt = 1]
    /\ UNCHANGED <<codecVars, pipeVars, callVars, cli>>

\* the loop test fails: the error is logged and null returned
ReturnNull ==
    /\ explain # <<>> /\ explain.pc = "loop"
    /\ ~hasAttempt(explain.attempt, explain.opts.maxRetries)
    /\ explain' = [explain EXCEPT !.pc = "returned", !.result = <<>>]
    /\ UNCHANGED <<codecVars, pipeVars, callVars, cli>>

\* await operation() fulfils: the result is cached and returned
OperationSucceeds ==
    /\ explain # <<>> /\ explain.pc = "loop"
    /\ hasAttempt(explain.attempt, explain.opts.maxRetries)
    /\ explain' = [explain EXCEPT !.pc = "returned",
                                   !.outcomes = Append(@, "fulfilled"),
                                   !.cache = IF explain.opts.cacheEnabled
                                             THEN <<JsonStringify(Answer)>> ELSE @,
                                   !.result = Answer]
    /\ UNCHANGED <<codecVars, pipeVars, callVars, cli>>

\* await operation() rejects: the error is logged; a timer is set unless
\* this was the last attempt
OperationFails ==
    /\ explain # <<>> /\ explain.pc = "loop"
    /\ hasAttempt(explain.attempt, explain.opts.maxRetries)
    /\ IF explain.attempt < explain.opts.maxRetries
       THEN explain' = [explain EXCEPT
                            !.pc = "backoff",
                            !.outcomes = Append(@, "rejected"),
                            !.delays = Append(@, RETRY_BASE_DELAY_MS
                                                 * Power(BACKOFF_MULTIPLIER, explain.attempt))]
       ELSE explain' = [explain EXCEPT !.outcomes = Append(@, "rejected"),
                                       !.attempt = @ + 1]
    /\ UNCHANGED <<codecVars, pipeVars, callVars, cli>>

\* the timer fires: attempt++
BackoffElapsed ==
    /\ explain # <<>> /\ explain.pc = "backoff"
    /\ explain' = [explain EXCEPT !.pc = "loop", !.attempt = @ + 1]
    /\ UNCHANGED <<codecVars, pipeVars, callVars, cli>>

\* generateSummary returns result || null and processCollection composes
\* the summary from it, or warns and keeps the schema without summary
ComposeSummary ==
    /\ explain # <<>> /\ explain.pc = "returned"
    /\ explain' = [explain EXCEPT !.pc = "schema", !.summary = explain.result]
    /\ UNCHANGED <<codecVars, pipeVars, callVars, cli>>

NextExplain ==
    \/ CheckCache
    \/ ReturnNull
    \/ OperationSucceeds
    \/ OperationFails
    \/ BackoffElapsed
    \/ ComposeSummary

SpecExplain == InitExplain /\ [][NextExplain]_vars

\* the operation settles and the timers fire
SpecExplainLive == SpecExplain /\ WF_vars(NextExplain)

-----------------------------------------------------------------------------
(* A detectBsonType call on one value *)

MaxPlainNumber == 20
MaxFarLimb == 2

PlainNumbers == {NumV(n) : n \in (-MaxPlainNumber)..MaxPlainNumber}
               \cup {NumV(INT32_MIN), NumV(INT32_MIN + 1), NumV(INT32_MAX - 1), NumV(INT32_MAX)}

\* the integers around both ends of the signed 32-bit range, and far ones
WideNumbers ==
    {WideV(hi, lo) : hi \in ((-32768 - MaxFarLimb)..(-32767)) \cup (32766..(32767 + MaxFarLimb))
                            \cup {-LIMB * 128, LIMB * 128},
                     lo \in {0, 1, LIMB - 1}}

Fractions == {FracV(n, digits) : n \in {-3, 0, 3, INT32_MAX}, digits \in {<<"1", "4">>, <<"5">>}}

OtherValues ==
    {NullV, UndefinedV, BoolV(TRUE), StrV(<<"1">>), BigIntV(1), BsonV(<<"L", "o", "n", "g">>, <<"1">>),
     BsonV(<<"D", "e", "c", "i", "m", "a", "l", "1", "2", "8">>, <<"1">>), ArrV(<<>>), ObjV(<<>>), DateV(<<"2", "0", "2", "0">>)}

ClassifyValues == PlainNumbers \cup WideNumbers \cup Fractions \cup OtherValues

InitClassify ==
    /\ CallStart
    /\ fn = "detectBsonType"
    /\ arg \in ClassifyValues

Classify ==
    /\ fn = "detectBsonType"
    /\ ret' = detectBsonType(arg)
    /\ fn' = "classified"
    /\ UNCHANGED <<arg, pool>>
    /\ UNCHANGED <<codecVars, pipeVars, runVars>>

NextClassify == Classify

SpecClassify == InitClassify /\ [][NextClassify]_vars

-----------------------------------------------------------------------------
(* The example of one PathValue under each redaction policy *)

RedactPaths == {<<"f", "i", "e", "l", "d">>, <<"p", "h", "o", "n", "e">>, <<"a", ".", "k">>, <<"k">>}
RedactValues == {StrV(<<"v">>), StrV(<<"v", "@", "w", ".", "x", "y">>), NumV(7)}
RedactPatterns == {<<>>, <<<<"a", ".", "*">>>>, <<<<"k">>>>, <<<<"f", "i", "e", "l", "d">>>>}

InitRedact ==
    /\ CallStart
    /\ fn = "collectExamples"
    /\ arg \in [path : RedactPaths, value : RedactValues,
                piiPatterns : RedactPatterns, redactMode : RedactModeChoices]

\* the example expression of collectExamples, evaluated under every policy
ExampleUnderEachPolicy ==
    /\ fn = "collectExamples"
    /\ ret' = [redact \in RedactChoices |->
                exampleOf(PathValue(arg.value, detectBsonType(arg.value), 0), arg.path,
                          [DEFAULT_OPTIONS EXCEPT !.redact = redact,
                                                  !.redactMode = arg.redactMode,
                                                  !.piiPatterns = arg.piiPatterns])]
    /\ fn' = "examples"
    /\ UNCHANGED <<arg, pool>>
    /\ UNCHANGED <<codecVars, pipeVars, runVars>>

NextRedact == ExampleUnderEachPolicy

SpecRedact == InitRedact /\ [][NextRedact]_vars

-----------------------------------------------------------------------------
(* run: connect, scan, process every collection, disconnect, render.  Each *)
(* await of run is a step; clientInstance is the module variable of the    *)
(* mongo client.                                                           *)

MaxCollections == 2

EXIT_CODES ==
    [SUCCESS |-> 0, CONNECTION_FAILURE |-> 1, AUTH_FAILURE |-> 2,
     SAMPLING_FAILURE |-> 3, RENDER_FAILURE |-> 4, INVALID_ARGS |-> 10]

RunConfigs == [samplingStrict : BOOLEAN, hasFilters : BOOLEAN, llm : BOOLEAN]

NewRun(config) ==
    [pc |-> "connect",
     config |-> config,
     clientInstance |-> FALSE,
     connects |-> 0,
     disconnects |-> 0,
     after |-> "none",
     outcome |-> <<>>,
     sampling |-> <<>>,
     schemas |-> 0,
     error |-> "none",
     exit |-> <<>>]

InitRun ==
    /\ CodecIdle
    /\ PipelineOff
    /\ fn = "off"
    /\ arg = <<>>
    /\ ret = <<>>
    /\ pool = <<>>
    /\ explain = <<>>
    /\ \E config \in RunConfigs : cli = NewRun(config)

\* sample(collection, opts): firstTry is what the pipeline gives, fallbackTry
\* what the random fallback gives; "sampled" is a return, "thrown" a throw
sample(opts, firstTry, fallbackTry) ==
    IF firstTry = "none" /\ opts.hasFilters /\ ~opts.strict
    THEN IF fallbackTry = "error" THEN "thrown" ELSE "sampled"
    ELSE IF firstTry = "none" /\ opts.strict THEN "thrown"
    ELSE IF firstTry = "error"
    THEN IF opts.strict \/ fallbackTry = "error" THEN "thrown" ELSE "sampled"
    ELSE "sampled"

\* the callback that run hands to runWithConcurrency: the result of
\* processCollection, null after a failure, or a throw under samplingStrict
processOutcome(config, sampled) ==
    IF sampled = "sampled" THEN "result"
    ELSE IF config.samplingStrict THEN "throw" ELSE "null"

\* what runWithConcurrency leaves in results[i]: a value, or a hole after
\* a throw
ResultEntry(outcome) ==
    CASE outcome = "result" -> <<ObjV(<<>>)>>
      [] outcome = "null" -> <<NullV>>
      [] outcome = "throw" -> <<>>

RunAt(pc) == cli # <<>> /\ cli.pc = pc

\* the body of a catch (error) of run is reached
Throw(kind) == [cli EXCEPT !.pc = "catch", !.error = kind]

\* const { db } = await connect(config.uri, config.db)
Connect ==
    /\ RunAt("connect")
    /\ \/ cli' = [cli EXCEPT !.pc = "scan", !.clientInstance = TRUE, !.connects = @ + 1]
       \/ \E kind \in {"auth", "connection"} : cli' = Throw(kind)
       \/ \E kind \in {"auth", "connection"} :
                cli' = [Throw(kind) EXCEPT !.clientInstance = TRUE]
    /\ UNCHANGED <<codecVars, pipeVars, callVars, explain>>

\* const scanResult = await scan(db, ...), and the test for no collection
Scan ==
    /\ RunAt("scan")
    /\ \/ \E n \in 0..MaxCollections :
            cli' = [cli EXCEPT !.pc = IF n = 0 THEN "disconnect" ELSE "process",
                               !.after = IF n = 0 THEN "return" ELSE "none",
                               !.outcome = [j \in 1..n |-> "pending"],
                               !.sampling = [j \in 1..n |-> "pending"]]
       \/ cli' = Throw("other")
    /\ UNCHANGED <<codecVars, pipeVars, callVars, explain>>

\* the callback of one collection runs to its end
ProcessCollection(j) ==
    /\ RunAt("process")
    /\ cli.outcome[j] = "pending"
    /\ \E firstTry \in {"documents", "none", "error"}, fallbackTry \in {"documents", "error"} :
            LET sampled == sample([strict |-> cli.config.samplingStrict,
                                   hasFilters |-> cli.config.hasFilters],
                                  firstTry, fallbackTry)
            IN  cli' = [cli EXCEPT !.sampling[j] = sampled,
                                   !.outcome[j] = processOutcome(cli.config, sampled)]
    /\ UNCHANGED <<codecVars, pipeVars, callVars, explain>>

\* runWithConcurrency returns: the successful results are collected
CollectResults ==
    /\ RunAt("process")
    /\ \A j \in 1..Len(cli.outcome) : cli.outcome[j] # "pending"
    /\ LET processResults == filterResults([j \in 1..Len(cli.outcome) |-> ResultEntry(cli.outcome[j])])
           schemas == Len(SelectSeq(processResults, LAMBDA r : Truthy(r[1])))
       IN  cli' = [cli EXCEPT !.schemas = schemas,
                              !.pc = IF cli.config.llm /\ schemas > 0 THEN "describe" ELSE "disconnect",
                              !.after = "render"]
    /\ UNCHANGED <<codecVars, pipeVars, callVars, explain>>

\* the field descriptions: every failure is caught and logged
DescribeFields ==
    /\ RunAt("describe")
    /\ cli' = [cli EXCEPT !.pc = "disconnect"]
    /\ UNCHANGED <<codecVars, pipeVars, callVars, explain>>

\* await disconnect(): the client is closed, or close() rejects
Disconnect ==
    /\ RunAt("disconnect")
    /\ \/ cli' = [cli EXCEPT !.disconnects = @ + 1,
                              !.clientInstance = FALSE,
                              !.pc = IF cli.after = "return" THEN "returned" ELSE "render",
                              !.exit = IF cli.after = "return" THEN <<EXIT_CODES.SUCCESS>> ELSE @]
       \/ cli.clientInstance /\ cli' = [Throw("other") EXCEPT !.disconnects = @ + 1]
    /\ UNCHANGED <<codecVars, pipeVars, callVars, explain>>

\* the output directories and files are written
Render ==
    /\ RunAt("render")
    /\ \/ cli' = [cli EXCEPT !.pc = "returned", !.exit = <<EXIT_CODES.SUCCESS>>]
       \/ cli' = Throw("other")
    /\ UNCHANGED <<codecVars, pipeVars, callVars, explain>>

\* catch (error): the exit code by the message of the error
Catch ==
    /\ RunAt("catch")
    /\ cli' = [cli EXCEPT !.pc = "returned",
                          !.exit = CASE cli.error = "auth" -> <<EXIT_CODES.AUTH_FAILURE>>
                                     [] cli.error = "connection" -> <<EXIT_CODES.CONNECTION_FAILURE>>
                                     [] OTHER -> <<EXIT_CODES.RENDER_FAILURE>>]
    /\ UNCHANGED <<codecVars, pipeVars, callVars, explain>>

NextRun ==
    \/ Connect
    \/ Scan
    \/ \E j \in 1..MaxCollections : j <= Len(cli.outcome) /\ ProcessCollection(j)
    \/ CollectResults
    \/ DescribeFields
    \/ Disconnect
    \/ Render
    \/ Catch

SpecRun == InitRun /\ [][NextRun]_vars

-----------------------------------------------------------------------------
(* Properties of the codec *)

\* C1: for every string s (any characters, including '.', '$', '\' and
\* control characters), unescapeKey(escapeKey(s)) = s.
C1_EscapeRoundTrip == cpc = "unescaped" => cBack = cKey

\* A '.' of the segment that is not the second character of a
\* backslash unit, scanning as splitPath scans
RECURSIVE UnescapedSepFrom(_, _)
UnescapedSepFrom(seg, i) ==
    IF i > Len(seg) THEN FALSE
    ELSE IF seg[i] = BS /\ i + 1 <= Len(seg) THEN UnescapedSepFrom(seg, i + 2)
    ELSE IF seg[i] = DOT THEN TRUE
    ELSE UnescapedSepFrom(seg, i + 1)

HasUnescapedSep(seg) == UnescapedSepFrom(seg, 1)

\* The segment ends in a backslash that starts no backslash unit
RECURSIVE DanglingFrom(_, _)
DanglingFrom(seg, i) ==
    IF i > Len(seg) THEN FALSE
    ELSE IF seg[i] = BS
         THEN IF i + 1 <= Len(seg) THEN DanglingFrom(seg, i + 2) ELSE TRUE
         ELSE DanglingFrom(seg, i + 1)

EndsInDanglingBackslash(seg) == DanglingFrom(seg, 1)

NoUnescapedSep(segs) == \A k \in 1..Len(segs) : ~HasUnescapedSep(segs[k])

\* C2 as stated: for every list of segments in which no segment contains
\* an unescaped separator, splitPath(joinPath(segments)) is that list.
C2_SplitJoinOriginal ==
    (cpc = "split" /\ NoUnescapedSep(cSegs)) => cSplit = cSegs

JoinableSegs(segs) ==
    /\ NoUnescapedSep(segs)
    /\ \A k \in 1..Len(segs) : segs[k] # <<>>
    /\ \A k \in 1..(Len(segs) - 1) : ~EndsInDanglingBackslash(segs[k])

\* C2 (amended): for every list of non-empty segments in which no segment
\* contains an unescaped separator and no segment but the last ends in a
\* backslash that escapes nothing, splitPath(joinPath(segments)) is that
\* list: same length, same order, same contents.
C2_SplitJoinRoundTrip ==
    (cpc = "split" /\ JoinableSegs(cSegs)) => cSplit = cSegs

C2_Witness ==
    /\ cpc = "split"
    /\ JoinableSegs(cSegs)
    /\ Len(cSegs) = 3
    /\ cSegs[1] = <<BS, DOT>>
    /\ cSplit = cSegs

-----------------------------------------------------------------------------
(* Properties of flatten *)

\* the number of PathValues a path map holds
Retained(paths) == SumSeq([i \in 1..Len(paths) |-> Len(paths[i].values)])

FlattenStep == phase = "flatten" /\ phase' = "flatten"

KeyBudgetHeld ==
    phase = "flatten" =>
        /\ Retained(fl.paths) = fl.keyCount
        /\ Retained(fl.paths) <= limits.maxKeysPerDoc

KeyBudgetStep ==
    FlattenStep =>
        /\ fl'.keyCount >= fl.keyCount
        /\ fl.keyCount >= limits.maxKeysPerDoc =>
                /\ fl'.paths = fl.paths
                /\ fl'.counters.keysTruncated = fl.counters.keysTruncated + 1

\* C4: at every point of a flatten call the number of retained PathValues
\* is the shared counter and at most maxKeysPerDoc; the counter never goes
\* down, and once it has reached the budget every further step of the
\* traversal, in whatever branch, leaves the paths as they are and
\* increments keysTruncated by one.
C4_KeyBudget == []KeyBudgetHeld /\ [][KeyBudgetStep]_vars

C4_Witness ==
    /\ phase = "flatten"
    /\ fl.keyCount = limits.maxKeysPerDoc
    /\ fl.counters.keysTruncated >= 2
    /\ fl.stack # <<>>
    /\ TopFrame(fl).op = "types"

\* the traverse call that the next step of a flatten makes, if it makes one
NextCall(c) ==
    LET f == TopFrame(c)
        e == f.val.c[f.i + 1]
    IN  CASE f.op = "root" ->
                [calls |-> TRUE, path |-> escapeKey(e.key), depth |-> 1]
          [] f.op = "keys" ->
                [calls |-> TRUE,
                 path |-> IF f.path # <<>> THEN joinPath(<<f.path, escapeKey(e.key)>>)
                          ELSE escapeKey(e.key),
                 depth |-> f.depth + 1]
          [] f.op = "elems" ->
                [calls |-> e.val.k \in {"obj", "arr"},
                 path |-> joinPath(<<f.path, formatArrayIndex(f.i)>>),
                 depth |-> f.depth + 1]
          [] f.op = "types" ->
                [calls |-> FALSE, path |-> <<>>, depth |-> 0]

TooDeep(c) == NextCall(c).calls /\ NextCall(c).depth > limits.maxDepth

\* the null leaves at paths that end in .[TRUNCATED]
TruncatedLeaves(paths) ==
    SumSeq([i \in 1..Len(paths) |->
                IF EndsWith(paths[i].path, TRUNCATED_SUFFIX)
                THEN Cardinality({j \in 1..Len(paths[i].values) :
                                    paths[i].values[j].value = NullV})
                ELSE 0])

\* no recorded path lies below the value of a recorded .[TRUNCATED] leaf
NoPathBelowTruncated(paths) ==
    \A i \in 1..Len(paths) :
        EndsWith(paths[i].path, TRUNCATED_SUFFIX) =>
            LET base == SubSeq(paths[i].path, 1,
                               Len(paths[i].path) - Len(TRUNCATED_SUFFIX))
            IN  \A j \in 1..Len(paths) :
                    j # i => ~StartsWithAt(paths[j].path, 1, base \o <<DOT>>)

TruncationStep ==
    FlattenStep =>
        IF TooDeep(fl)
        THEN LET leafPath == NextCall(fl).path \o TRUNCATED_SUFFIX
             IN  /\ fl'.counters.depthTruncated = fl.counters.depthTruncated + 1
                 /\ \A k \in 1..Len(fl'.stack) : fl'.stack[k].depth < NextCall(fl).depth
                 /\ IF fl.keyCount < limits.maxKeysPerDoc
                    THEN /\ fl'.paths =
                                MapSet(fl.paths, leafPath,
                                       Append(MapGet(fl.paths, leafPath),
                                              PathValue(NullV, "null", fl.docIndex)))
                         /\ fl'.counters.keysTruncated = fl.counters.keysTruncated
                    ELSE /\ fl'.paths = fl.paths
                         /\ fl'.counters.keysTruncated = fl.counters.keysTruncated + 1
        ELSE fl'.counters.depthTruncated = fl.counters.depthTruncated

TruncationCounted ==
    phase = "flatten" =>
        /\ TruncatedLeaves(fl.paths) <= fl.counters.depthTruncated
        /\ fl.counters.depthTruncated - fl.counters.keysTruncated
                <= TruncatedLeaves(fl.paths)

LongArrays(paths) ==
    SumSeq([i \in 1..Len(paths) |->
                Cardinality({j \in 1..Len(paths[i].values) :
                                /\ paths[i].values[j].value.k = "arr"
                                /\ Len(paths[i].values[j].value.c) > limits.maxArraySample})])

\* no element path beyond the sample, for the arrays recorded in paths
OnlySampledElements(paths) ==
    \A i \in 1..Len(paths) : \A j \in 1..Len(paths[i].values) :
        LET v == paths[i].values[j].value
        IN  v.k = "arr" =>
                \A n \in limits.maxArraySample..(Len(v.c) - 1) :
                    ~MapHas(paths, joinPath(<<paths[i].path, formatArrayIndex(n)>>))

ArraySampleHeld ==
    phase = "flatten" =>
        /\ fl.counters.arraysTruncated = LongArrays(fl.paths)
        /\ OnlySampledElements(fl.paths)

NewPaths(before, after) == MapPaths(after) \ MapPaths(before)

ArraySampleStep ==
    (FlattenStep /\ TopFrame(fl).op = "elems") =>
        LET f == TopFrame(fl)
            element == f.val.c[f.i + 1].val
            elementPath == joinPath(<<f.path, formatArrayIndex(f.i)>>)
        IN  /\ f.i < limits.maxArraySample
            /\ f.i < Len(f.val.c)
            /\ NewPaths(fl.paths, fl'.paths)
                    \subseteq {elementPath, elementPath \o TRUNCATED_SUFFIX}
            /\ (fl.keyCount < limits.maxKeysPerDoc /\ ~TooDeep(fl)) =>
                    /\ MapHas(fl'.paths, elementPath)
                    /\ Last(MapGet(fl'.paths, elementPath)).value = element

Unlimited(i) == flatten(docs[i], i - 1, DEFAULT_LIMITS)

Occurrences(values, x) == Cardinality({j \in 1..Len(values) : values[j] = x})

\* result lacks a path or a value that reference has
Omits(result, reference) ==
    \E i \in 1..Len(reference.paths) : \E j \in 1..Len(reference.paths[i].values) :
        LET x == reference.paths[i].values[j]
        IN  Occurrences(MapGet(result.paths, reference.paths[i].path), x)
                < Occurrences(reference.paths[i].values, x)

SomeCounter(result) ==
    \/ result.truncationCounters.depthTruncated > 0
    \/ result.truncationCounters.keysTruncated > 0
    \/ result.truncationCounters.arraysTruncated > 0

\* C7: whenever the result of flatten under the limits lacks a path or a
\* value that the same traversal produces when no limit binds, one of
\* depthTruncated, keysTruncated, arraysTruncated is greater than zero in
\* the result; and a flatten call that has not returned can always go on:
\* no limit stops it other than by its return.
C7_NeverSilent ==
    /\ \A i \in 1..Len(results) :
            Omits(results[i], Unlimited(i)) => SomeCounter(results[i])
    /\ phase = "flatten" => ENABLED NextFlatten

C7_Witness ==
    /\ phase = "idle"
    /\ Len(results) = 1
    /\ Omits(results[1], Unlimited(1))
    /\ results[1].truncationCounters.arraysTruncated = 1
    /\ results[1].truncationCounters.depthTruncated = 0
    /\ results[1].truncationCounters.keysTruncated = 0

-----------------------------------------------------------------------------
(* Properties of the batch *)

\* out is the raw path with its array-index segments turned into [*]
NormalizesTo(raw, out) ==
    LET rawSegments == FilterNonEmpty(splitPath(raw))
        outSegments == splitPath(out)
    IN  /\ Len(rawSegments) = Len(outSegments)
        /\ \A k \in 1..Len(rawSegments) :
                outSegments[k] = IF isArrayIndex(rawSegments[k]) THEN WILDCARD
                                 ELSE rawSegments[k]

\* document i (from 1) contributes a value to the normalized path
Contributes(i, path) ==
    \E e \in 1..Len(results[i].paths) : NormalizesTo(results[i].paths[e].path, path)

Contributors(path) == {i \in 1..Len(results) : Contributes(i, path)}

\* C3: after flatten(d_i, i) of the n documents, mergeFlattenResults and
\* aggregateAll with totalDocs = n, every emitted field has presentCount
\* equal to the number of documents that contribute at least one value to
\* its path, absentCount = n - presentCount, and so their sum is n.
C3_PresenceCounts ==
    phase = "aggregated" =>
        /\ aggOpts.totalDocs = Len(docs)
        /\ \A k \in 1..Len(fields) :
                /\ fields[k].presentCount = Cardinality(Contributors(fields[k].path))
                /\ fields[k].absentCount = Len(docs) - fields[k].presentCount
                /\ fields[k].presentCount + fields[k].absentCount = Len(docs)

C3_Witness ==
    /\ phase = "aggregated"
    /\ Len(docs) = 2
    /\ \E k \in 1..Len(fields) :
            /\ fields[k].presentCount = 1
            /\ fields[k].absentCount = 1
            /\ Len(MapGet(merged.paths, fields[k].path)) = 2

\* the PathValues of the flatten results at the paths that normalize to out
RECURSIVE InputValues(_, _, _)
InputValues(out, r, e) ==
    IF r > Len(results) THEN <<>>
    ELSE IF e > Len(results[r].paths) THEN InputValues(out, r + 1, 1)
    ELSE (IF NormalizesTo(results[r].paths[e].path, out)
          THEN results[r].paths[e].values ELSE <<>>)
         \o InputValues(out, r, e + 1)

HasIndexSegment(path) ==
    \E k \in 1..Len(splitPath(path)) : isArrayIndex(splitPath(path)[k])

\* C8: in the path map that mergeFlattenResults returns no path has an
\* array-index segment [i], no path occurs twice, every path of every
\* input result normalizes to one of them, and the value list of each
\* holds exactly the PathValues of the input paths that normalize to it:
\* as many values, and each value as often.
C8_MergeNormalizes ==
    phase \in {"merged", "aggregated"} =>
        /\ \A i \in 1..Len(merged.paths) :
                LET out == merged.paths[i]
                    inputs == InputValues(out.path, 1, 1)
                IN  /\ ~HasIndexSegment(out.path)
                    /\ \A j \in 1..Len(merged.paths) : merged.paths[j].path = out.path => j = i
                    /\ Len(out.values) = Len(inputs)
                    /\ \A j \in 1..Len(inputs) :
                            Occurrences(out.values, inputs[j]) = Occurrences(inputs, inputs[j])
        /\ \A r \in 1..Len(results) : \A e \in 1..Len(results[r].paths) :
                \E i \in 1..Len(merged.paths) :
                    NormalizesTo(results[r].paths[e].path, merged.paths[i].path)

C8_Witness ==
    /\ phase = "merged"
    /\ \E r \in 1..Len(results) :
            /\ MapHas(results[r].paths, <<"a", ".", "[", "0", "]", ".", "a">>)
            /\ MapHas(results[r].paths, <<"a", ".", "[", "1", "]", ".", "a">>)
    /\ Len(MapGet(merged.paths, <<"a", ".", "[", "*", "]", ".", "a">>)) >= 2

Skipped(path) == EndsWith(path, WILDCARD_SUFFIX) \/ EndsWith(path, TRUNCATED_SUFFIX)

\* C9: aggregateAll emits exactly one FieldSchema for every input path that
\* does not end in '.[*]' or '.[TRUNCATED]', none for a path that does, and
\* none for anything else; a path with such a marker as an inner segment is
\* kept.
C9_SkipsMarkers ==
    phase = "aggregated" =>
        /\ \A i \in 1..Len(merged.paths) :
                Cardinality({k \in 1..Len(fields) : fields[k].path = merged.paths[i].path})
                    = IF Skipped(merged.paths[i].path) THEN 0 ELSE 1
        /\ \A k \in 1..Len(fields) : MapHas(merged.paths, fields[k].path)

C9_Witness ==
    /\ phase = "aggregated"
    /\ MapHas(merged.paths, <<"a", ".", "[", "*", "]">>)
    /\ \A k \in 1..Len(fields) : fields[k].path # <<"a", ".", "[", "*", "]">>
    /\ \E k \in 1..Len(fields) : fields[k].path = <<"a", ".", "[", "*", "]", ".", "a">>

\* the plain formatting of a PathValue
PlainExample(pv, path) ==
    RedactedExample(formatValue(pv.value), pv.type,
                    detectPII(path, pv.value, aggOpts.piiPatterns))

MaskedExample(pv, path) == mask(pv.value, path, aggOpts.redactMode)

\* the detector flags the value or the path, custom patterns included
Flagged(pv, path) == Len(detectPII(path, pv.value, aggOpts.piiPatterns)) > 0

PolicyExample(pv, path) ==
    CASE aggOpts.redact = "all" -> MaskedExample(pv, path)
      [] aggOpts.redact = "pii" ->
            IF Flagged(pv, path) THEN MaskedExample(pv, path) ELSE PlainExample(pv, path)
      [] aggOpts.redact = "off" -> PlainExample(pv, path)

\* C10: every example of every field is the example of one of the path's
\* values under the policy: the output of mask under 'all'; under 'pii'
\* the output of mask if the detector flags the value or the path (the
\* custom patterns taken into account) and the plain formatting if not;
\* the plain formatting under 'off'.  The first value of a path always
\* gives the first example.
C10_RedactionPolicy ==
    phase = "aggregated" =>
        \A k \in 1..Len(fields) :
            LET path == fields[k].path
                values == MapGet(merged.paths, path)
            IN  /\ \A x \in 1..Len(fields[k].examples) :
                        \E j \in 1..Len(values) :
                            fields[k].examples[x] = PolicyExample(values[j], path)
                /\ fields[k].examples # <<>>
                /\ fields[k].examples[1] = PolicyExample(values[1], path)

C10_Witness ==
    /\ phase = "aggregated"
    /\ aggOpts.redact = "pii"
    /\ aggOpts.piiPatterns # <<>>
    /\ \E k \in 1..Len(fields) :
            LET values == MapGet(merged.paths, fields[k].path)
            IN  /\ fields[k].path = <<"a", ".", "a">>
                /\ detectPII(fields[k].path, values[1].value, <<>>) = <<>>
                /\ fields[k].examples[1] = MaskedExample(values[1], fields[k].path)
                /\ fields[k].examples[1] # PlainExample(values[1], fields[k].path)

-----------------------------------------------------------------------------
(* Properties of mask *)

\* the positions of the decimal digits in the text of a number
DigitPositions(str) == {j \in 1..Len(str) : str[j] \in Digits}

\* C11: mask applied to a number shows only its first and last digit, every
\* interior digit replaced by the mask character, and a number whose text
\* has at most 2 digits is fully masked: none of its digits is in the output.
C11_MaskNumber ==
    (fn = "masked" /\ arg.value.k = "num") =>
        LET str == IntToChars(arg.value.n)
            at == DigitPositions(str)
            out == ret.value
        IN  IF Cardinality(at) <= 2
            THEN \A j \in 1..Len(out) : out[j] \notin Digits
            ELSE /\ Len(out) = Len(str)
                 /\ \A j \in at :
                        out[j] = IF (\A i \in at : j <= i) \/ (\A i \in at : i <= j)
                                 THEN str[j] ELSE "*"

-----------------------------------------------------------------------------
(* Properties of detectPII *)

IsGlob(pattern) == EndsWith(pattern, <<".", "*">>)
GlobPrefix(pattern) == SubSeq(pattern, 1, Len(pattern) - 2)

\* the hint a custom pattern stands for: the last piece of the pattern
\* without its '.*', or the pattern itself when that piece is empty
PatternHint(pattern) ==
    LET piece == Last(SplitOn(IF IsGlob(pattern) THEN GlobPrefix(pattern) ELSE pattern, DOT))
    IN  IF piece # <<>> THEN piece ELSE pattern

\* the rule as written: a segment equals the prefix case-insensitively, an
\* exact pattern equals the whole path
FlagsAsWritten(path, pattern) ==
    IF IsGlob(pattern)
    THEN \E i \in 1..(Len(SplitOn(path, DOT)) - 1) :
            toLowerCase(SplitOn(path, DOT)[i]) = toLowerCase(GlobPrefix(pattern))
    ELSE path = pattern

\* the rule with a trailing '[*]' of the segment disregarded and the exact
\* pattern compared case-insensitively
FlagsFolded(path, pattern) ==
    IF IsGlob(pattern)
    THEN \E i \in 1..(Len(SplitOn(path, DOT)) - 1) :
            \/ toLowerCase(SplitOn(path, DOT)[i]) = toLowerCase(GlobPrefix(pattern))
            \/ toLowerCase(SplitOn(path, DOT)[i]) = toLowerCase(GlobPrefix(pattern) \o WILDCARD)
    ELSE toLowerCase(path) = toLowerCase(pattern)

\* C12 (as written): a custom pattern 'prefix.*' adds its hint in
\* detectPII(path, value, patterns) if and only if some non-final dot-segment
\* of path equals prefix case-insensitively (the prefix field itself is not
\* flagged, every descendant is); a pattern without '.*' flags a path only
\* when it equals the whole path.
C12_Original ==
    fn = "detected" =>
        \A j \in 1..Len(arg.customPatterns) :
            Contains(ret, PatternHint(arg.customPatterns[j]))
                <=> \E q \in 1..Len(arg.customPatterns) :
                        /\ PatternHint(arg.customPatterns[q]) = PatternHint(arg.customPatterns[j])
                        /\ FlagsAsWritten(arg.path, arg.customPatterns[q])

\* C12 (amended): a custom pattern 'prefix.*' adds its hint if and only if
\* some non-final dot-segment of path, a trailing '[*]' of the segment
\* disregarded, equals prefix case-insensitively; a pattern without '.*'
\* adds its hint if and only if it equals the whole path case-insensitively.
C12_CustomPatterns ==
    fn = "detected" =>
        \A j \in 1..Len(arg.customPatterns) :
            Contains(ret, PatternHint(arg.customPatterns[j]))
                <=> \E q \in 1..Len(arg.customPatterns) :
                        /\ PatternHint(arg.customPatterns[q]) = PatternHint(arg.customPatterns[j])
                        /\ FlagsFolded(arg.path, arg.customPatterns[q])

\* a descendant of an array-marked prefix segment is flagged
C12_Witness ==
    /\ fn = "detected"
    /\ arg.path = <<"x", ".", "k", "[", "*", "]", ".", "x">>
    /\ arg.customPatterns = <<<<"K", ".", "*">>>>
    /\ Contains(ret, <<"K">>)

-----------------------------------------------------------------------------
(* Properties of the variant analysis *)

Elements(seq) == {seq[j] : j \in 1..Len(seq)}

CountOf(seq, x) == Cardinality({j \in 1..Len(seq) : seq[j] = x})

IsPermutation(p, q) ==
    /\ Len(p) = Len(q)
    /\ \A x \in Elements(p) \cup Elements(q) : CountOf(p, x) = CountOf(q, x)

\* the signature of a permutation is the signature of the list
PermutationStable == IsPermutation(arg.p, arg.q) => ret.p = ret.q

\* the signatures of different path sets differ
DifferentSetsDiffer == Elements(arg.p) # Elements(arg.q) => ret.p # ret.q

\* C13: generateSignature(P) = generateSignature(Q) whenever Q is a
\* permutation of the path list P, and the two differ whenever P and Q are
\* different path sets (the hash taken as injective).
C13_Signature == fn = "signed" => (PermutationStable /\ DifferentSetsDiffer)

\* the signature of document i of the call
DocSignature(i) ==
    generateSignature(extractShapePaths(arg.documents[i], DEFAULT_SHAPE_MAX_DEPTH))

\* the documents whose shape has the signature of the variant
DocsOfVariant(variant) ==
    {i \in 1..Len(arg.documents) : DocSignature(i) = generateSignature(variant.paths)}

RECURSIVE SumCounts(_, _)
SumCounts(variants, g) ==
    IF g > Len(variants) THEN 0 ELSE variants[g].count + SumCounts(variants, g + 1)

\* C14: analyzeVariants(docs, topN) groups the documents by shape signature
\* and returns at most topN entries in non-increasing count order; the count
\* of an entry is the number of input documents with its signature, its
\* ratio is count / docs.length, the counts sum to at most docs.length, and
\* an empty input gives an empty list.
C14_VariantCounts ==
    fn = "analyzed" =>
        /\ Len(ret) <= arg.topN
        /\ \A g, h \in 1..Len(ret) : g < h => ret[g].count >= ret[h].count
        /\ \A g, h \in 1..Len(ret) :
                g # h => generateSignature(ret[g].paths) # generateSignature(ret[h].paths)
        /\ \A g \in 1..Len(ret) :
                /\ ret[g].count = Cardinality(DocsOfVariant(ret[g]))
                /\ ret[g].count >= 1
                /\ ret[g].ratio = Ratio(ret[g].count, Len(arg.documents))
        /\ SumCounts(ret, 1) <= Len(arg.documents)
        /\ arg.documents = <<>> => ret = <<>>

\* three documents of two shapes, cut to the more frequent shape
C14_Witness ==
    /\ fn = "analyzed"
    /\ Len(arg.documents) = 3
    /\ arg.topN = 1
    /\ Cardinality({DocSignature(i) : i \in 1..3}) = 2
    /\ Len(ret) = 1
    /\ ret[1].count = 2

\* C15: the first (primary) entry of the result has empty addedPaths and
\* missingPaths; for every other entry addedPaths is exactly the paths of
\* the variant that the primary lacks and missingPaths exactly the paths of
\* the primary that the variant lacks, so the two lists are disjoint.
C15_VariantDiff ==
    (fn = "analyzed" /\ ret # <<>>) =>
        /\ ret[1].diff.addedPaths = <<>>
        /\ ret[1].diff.missingPaths = <<>>
        /\ \A g \in 2..Len(ret) :
                /\ Elements(ret[g].diff.addedPaths)
                        = Elements(ret[g].paths) \ Elements(ret[1].paths)
                /\ Elements(ret[g].diff.missingPaths)
                        = Elements(ret[1].paths) \ Elements(ret[g].paths)
                /\ Elements(ret[g].diff.addedPaths) \cap Elements(ret[g].diff.missingPaths) = {}

\* a variant that both adds to and lacks paths of the primary
C15_Witness ==
    /\ fn = "analyzed"
    /\ Len(ret) >= 2
    /\ ret[1].count = 2
    /\ ret[2].diff.addedPaths # <<>>
    /\ ret[2].diff.missingPaths # <<>>

\* the list is in natural path order
NaturallySorted(paths) ==
    \A i, j \in 1..Len(paths) : i < j => comparePaths(paths[i], paths[j]) <= 0

\* C16: every list the variant analysis emits (the paths of each Variant,
\* its diff.addedPaths and its diff.missingPaths) is sorted in natural,
\* numeric-aware, path order.
C16_SortedLists ==
    fn = "analyzed" =>
        \A g \in 1..Len(ret) :
            /\ NaturallySorted(ret[g].paths)
            /\ NaturallySorted(ret[g].diff.addedPaths)
            /\ NaturallySorted(ret[g].diff.missingPaths)

-----------------------------------------------------------------------------
(* Properties of the order of aggregateAll *)

\* no field precedes a field whose path is smaller in natural order
SortedByPath(schemas) ==
    \A i, j \in 1..Len(schemas) : i < j => ~LocaleLess(schemas[j].path, schemas[i].path)

\* C17: aggregateAll returns the fields sorted by path in natural string
\* order, so the order of its output is determined by the set of paths
\* alone: two maps of the same paths and values in different insertion
\* order give the same field sequence.
C17_OrderByPathsAlone ==
    fn = "aggregated" =>
        /\ SortedByPath(ret.p)
        /\ SortedByPath(ret.q)
        /\ ret.p = ret.q

-----------------------------------------------------------------------------
(* Properties of the limits *)

LimitsInRange(lim) ==
    /\ lim.maxDepth \in 1..100
    /\ lim.maxKeysPerDoc \in 1..10000
    /\ lim.maxArraySample \in 1..1000

\* C18: limits outside maxDepth 1..100, maxKeysPerDoc 1..10000 and
\* maxArraySample 1..1000 are rejected before any traversal begins and are
\* never clamped: no flatten traversal runs with an out-of-range limit,
\* whether the limit comes through the options of flatten or through the
\* configuration of the command line.
C18_LimitsValidated == phase = "flatten" => (LimitsInRange(limits) /\ limits = arg)

-----------------------------------------------------------------------------
(* Properties of runWithConcurrency *)

InFlight == {j \in ItemsOf(pool) : pool.chain[j] = "running"}

Freed(j) == {k \in 1..(j - 1) : pool.chain[k] = "settled"}

\* C19: runWithConcurrency(items, fn, N) with N >= 1 never has more than N
\* invocations of fn in flight, and a queued item is started only after a
\* running one has completed and freed its slot.
C19_BoundedConcurrency ==
    fn \in {"runWithConcurrency", "returned"} =>
        /\ Cardinality(InFlight) <= pool.maxConcurrency
        /\ Cardinality(pool.executing) <= pool.maxConcurrency
        /\ \A j \in ItemsOf(pool) :
                pool.chain[j] # "uncreated" =>
                    Cardinality(Freed(j)) >= j - pool.maxConcurrency

\* as many invocations in flight as the limit allows, with an item queued
C19_Witness ==
    /\ fn = "runWithConcurrency"
    /\ pool.maxConcurrency = 2
    /\ Cardinality(InFlight) = 2
    /\ pool.chain[3] = "uncreated"

\* the results of the tasks that succeeded with a value, in input order
RECURSIVE SucceededFrom(_)
SucceededFrom(j) ==
    IF j > Len(pool.chain) THEN <<>>
    ELSE (IF pool.outcome[j] = "value" THEN <<NumV(j)>> ELSE <<>>) \o SucceededFrom(j + 1)

Returned ==
    /\ \A j \in ItemsOf(pool) : pool.chain[j] = "settled"
    /\ ret = SucceededFrom(1)
    /\ \A g \in 1..Len(ret) : ret[g] # UndefinedV

\* C20: in runWithConcurrency a task that throws or rejects never makes the
\* call reject and never keeps the other items from running to completion;
\* the returned array holds only the results of the tasks that succeeded,
\* in input order, with no entry for a failed task.
C20_FailuresIsolated == [](fn = "returned" => Returned) /\ <>(fn = "returned")

\* a call returned the results of the first and the third item, the second
\* having thrown
C20_Witness ==
    /\ fn = "returned"
    /\ Len(pool.chain) = 3
    /\ pool.outcome = <<"value", "throw", "value">>
    /\ ret = <<NumV(1), NumV(3)>>

-----------------------------------------------------------------------------
(* Properties of runExplain *)

AllRejected(outcomes) == \A a \in 1..Len(outcomes) : outcomes[a] = "rejected"

\* the call has returned null
ReturnedNull == explain.pc \in {"returned", "schema"} /\ explain.result = <<>>

\* the attempts made so far, against the bound and the first success
AttemptsBounded ==
    /\ Len(explain.outcomes) <= explain.opts.maxRetries
    /\ AllRejected(SubSeq(explain.outcomes, 1, Len(explain.outcomes) - 1))
    /\ (explain.outcomes # <<>> /\ explain.outcomes[Len(explain.outcomes)] = "fulfilled")
            => explain.pc \in {"returned", "schema"} /\ explain.result = Answer

\* null is returned after maxRetries failed attempts, the cache untouched
NullAfterAllFailed ==
    ReturnedNull =>
        /\ Len(explain.outcomes) = explain.opts.maxRetries
        /\ AllRejected(explain.outcomes)
        /\ explain.cache = explain.cacheAtStart

\* the schema is produced with whatever runExplain returned
SchemaProduced == explain.pc = "schema" => explain.summary = explain.result

-----------------------------------------------------------------------------
(* Properties of the type distribution *)

\* the raw values aggregatePath was given for the field
ValuesOf(field) == MapGet(merged.paths, field.path)

TypeCountSum(field) == SumSeq([g \in 1..Len(field.typeCounts) |-> field.typeCounts[g].count])

RatioNumeratorSum(field) == SumSeq([g \in 1..Len(field.typeRatio) |-> field.typeRatio[g].ratio.num])

\* C22: for every FieldSchema that aggregatePath produces from a non-empty
\* value list, the typeCounts sum to values.length, and so the typeRatio
\* entries (count / values.length) sum to 1.
C22_TypeRatioSumsToOne ==
    phase = "aggregated" =>
        \A f \in 1..Len(fields) :
            Len(ValuesOf(fields[f])) > 0 =>
                /\ TypeCountSum(fields[f]) = Len(ValuesOf(fields[f]))
                /\ \A g \in 1..Len(fields[f].typeCounts) :
                        fields[f].typeCounts[g].count
                            = Cardinality({j \in 1..Len(ValuesOf(fields[f])) :
                                    ValuesOf(fields[f])[j].type = fields[f].typeCounts[g].type})
                /\ Len(fields[f].typeRatio) = Len(fields[f].typeCounts)
                /\ \A g \in 1..Len(fields[f].typeRatio) :
                        /\ fields[f].typeRatio[g].ratio.den = Len(ValuesOf(fields[f]))
                        /\ fields[f].typeRatio[g].ratio.num = fields[f].typeCounts[g].count
                /\ RatioNumeratorSum(fields[f]) = Len(ValuesOf(fields[f]))

\* a field of two types beside a field whose type was observed twice
C22_Witness ==
    /\ phase = "aggregated"
    /\ \E f \in 1..Len(fields) : Len(fields[f].typeCounts) = 2
    /\ \E f \in 1..Len(fields) : fields[f].typeCounts[1].count = 2

-----------------------------------------------------------------------------
(* Properties of detectBsonType *)

\* the number is integral and lies in -2147483648..2147483647: an integer
\* of the checker does, a number hi * 65536 + lo does when hi is in
\* -32768..32767
IntegralInRange(value) ==
    /\ value.s = <<>>
    /\ value.c # <<>> => value.c[1] \in (-32768)..32767

\* C23: detectBsonType classifies a number as Int iff it is integral and
\* within the signed 32-bit range, as Long iff it is integral outside that
\* range (or a bigint or a Long wrapper), and as Double iff it is
\* non-integral; -2147483648 is Int and 2147483648 is Long.
C23_NumericTypes ==
    fn = "classified" =>
        /\ arg.k = "num" =>
                /\ ret = "int" <=> IntegralInRange(arg)
                /\ ret = "long" <=> (arg.s = <<>> /\ ~IntegralInRange(arg))
                /\ ret = "double" <=> arg.s # <<>>
        /\ arg.k = "bigint" => ret = "long"
        /\ (arg.k = "bson" /\ arg.tag = <<"L", "o", "n", "g">>) => ret = "long"
        /\ arg.k \notin {"num", "bigint"} /\ ~(arg.k = "bson" /\ arg.tag = <<"L", "o", "n", "g">>)
                => ret \notin {"int", "long", "double"}
        /\ arg = NumV(INT32_MIN) => ret = "int"
        /\ arg = WideV(32768, 0) => ret = "long"

\* 2147483648, the first integer above the range, is a Long
C23_Witness ==
    /\ fn = "classified"
    /\ arg = WideV(32768, 0)
    /\ ret = "long"

-----------------------------------------------------------------------------
(* Termination of flatten *)

\* the steps a value can still cost: one for the value, its children's, and
\* one per array element for the element's type
RECURSIVE Weight(_)
Weight(value) ==
    IF value.k \notin {"arr", "obj"} THEN 1
    ELSE 1 + SumSeq([j \in 1..Len(value.c) |->
                        Weight(value.c[j].val) + (IF value.k = "arr" THEN 1 ELSE 0)])

\* the steps an open loop can still take
FrameWork(f) ==
    IF f.op = "types" THEN Len(f.types) - f.i
    ELSE SumSeq([j \in 1..Len(f.val.c) |->
                    IF j <= f.i THEN 0
                    ELSE Weight(f.val.c[j].val) + (IF f.op = "elems" THEN 1 ELSE 0)])
         + Len(f.types)

Remaining(c) == SumSeq([j \in 1..Len(c.stack) |-> FrameWork(c.stack[j])])

\* C24: flatten terminates for every finite document and every setting of
\* the limits: every step of a running call lowers the work that remains,
\* which is never negative, and the call returns its result.
C24_FlattenTerminates ==
    /\ [][FlattenStep => Remaining(fl') < Remaining(fl)]_vars
    /\ [](Remaining(fl) >= 0)
    /\ <>(phase = "idle" /\ Len(results) = Len(docs))

\* a call on nested arrays under limits that are not positive has returned
C24_Witness ==
    /\ phase = "idle"
    /\ Len(results) = 1
    /\ limits.maxArraySample <= 0
    /\ limits.maxKeysPerDoc <= 0
    /\ \E e \in 1..Len(docs[1].c) : docs[1].c[e].val.k = "arr" /\ Len(docs[1].c[e].val.c) = MaxArrayLen

-----------------------------------------------------------------------------
(* Hints and the redaction policy *)

\* C25: the hints of an example do not depend on the redaction policy: under
\* 'all' and 'pii' they are those under 'off', detectPII(path, value,
\* customPatterns), so that a value masked because of a custom pattern
\* carries that pattern's hint.
C25_HintsIndependent ==
    fn = "examples" =>
        \A redact \in RedactChoices :
            ret[redact].hints = detectPII(arg.path, arg.value, arg.piiPatterns)

-----------------------------------------------------------------------------
(* Masked strings *)

\* C26: mask never returns a string value unchanged: for every non-empty
\* string without an asterisk, every path and both modes, the value of the
\* result differs from the string.
C26_MaskChangesStrings ==
    (/\ fn = "masked"
     /\ arg.value.k = "str"
     /\ arg.value.s # <<>>
     /\ \A j \in 1..Len(arg.value.s) : arg.value.s[j] # "*")
        => ret.value # arg.value.s

-----------------------------------------------------------------------------
(* One PathValue per path *)

NoLimitReached(result) == result.truncationCounters = ZeroCounters

\* C27: in the FlattenResult of one document for which no limit was reached,
\* distinct fields never share a path: every path other than the '[*]'
\* element-type paths holds exactly one PathValue, also for documents with
\* an empty key.
C27_OnePathValuePerPath ==
    \A i \in 1..Len(results) :
        NoLimitReached(results[i]) =>
            \A e \in 1..Len(results[i].paths) :
                ~EndsWith(results[i].paths[e].path, WILDCARD)
                    => Len(results[i].paths[e].values) = 1

-----------------------------------------------------------------------------
(* The depth of the recorded paths *)

RECURSIVE KeysNonEmpty(_)
KeysNonEmpty(value) ==
    IF value.k \notin {"arr", "obj"} THEN TRUE
    ELSE \A j \in 1..Len(value.c) :
            /\ value.k = "obj" => value.c[j].key # <<>>
            /\ KeysNonEmpty(value.c[j].val)

\* C28: no value nested deeper than maxDepth is recorded: for a document
\* with non-empty keys every retained path other than the '.[*]' and
\* '.[TRUNCATED]' paths has at most maxDepth segments, under an object key
\* or inside an array.
C28_DepthOfPaths ==
    \A i \in 1..Len(results) :
        KeysNonEmpty(docs[i]) =>
            \A e \in 1..Len(results[i].paths) :
                LET path == results[i].paths[e].path
                IN  (~EndsWith(path, WILDCARD_SUFFIX) /\ ~EndsWith(path, TRUNCATED_SUFFIX))
                        => Len(splitPath(path)) <= limits.maxDepth

-----------------------------------------------------------------------------
(* Properties of run *)

\* C29: in run every successful connect() is followed by a disconnect()
\* before run returns, on every exit path.
C29_DisconnectBeforeReturn ==
    (cli.pc = "returned" /\ cli.connects > 0) => cli.disconnects >= cli.connects

SamplingFailed == \E j \in 1..Len(cli.sampling) : cli.sampling[j] = "thrown"

\* C30: with samplingStrict a sampling failure in any collection, an error
\* or no document, makes run end with an exit code other than SUCCESS.
C30_StrictSamplingFails ==
    (cli.pc = "returned" /\ cli.config.samplingStrict /\ SamplingFailed)
        => cli.exit # <<EXIT_CODES.SUCCESS>>

=============================================================================
